---- MODULE Spec2Model ----
(***************************************************************************)
(* Distributed JPEG carving: the pull-based master                          *)
(* (pipelining_filecarving_master.py) and its worker agents                 *)
(* (pipelining_fileCarving_worker.py).                                      *)
(*                                                                          *)
(* Bytes are naturals.  A file, a chunk, the disk image are sequences of    *)
(* bytes; TLA+ sequences are 1-based, so image offset k is image[k+1].      *)
(* The MD5 digest of a content is modelled by the content itself (an        *)
(* injective digest), and so is its 8-character prefix.                     *)
(***************************************************************************)
EXTENDS Integers, Sequences, FiniteSets, TLC

\* ------------------------------------------------------------------ bounds
MaxImageSize == 12
MaxChunkSize == 5
MaxOverlap == 6
MaxCarveLen == 5
MaxScanBlock == 4
MaxTailKeep == 4

\* ------------------------------------------------------------------ bytes
FF == 255
D8 == 216
D9 == 217
SOI == <<FF, D8>>
EOI == <<FF, D9>>

Min(a, b) == IF a <= b THEN a ELSE b
Max(a, b) == IF a >= b THEN a ELSE b

RECURSIVE Zeros(_)
Zeros(n) == IF n = 0 THEN << >> ELSE <<0>> \o Zeros(n - 1)

\* the sequences over S of length at most n
RECURSIVE SeqsUpTo(_, _)
SeqsUpTo(S, n) ==
    IF n = 0 THEN {<< >>}
    ELSE LET shorter == SeqsUpTo(S, n - 1)
         IN  shorter \cup {Append(q, b) : q \in {x \in shorter : Len(x) = n - 1}, b \in S}

\* --------------------------------------------------- Python bytes helpers
\* buf[a:b] for 0 <= a, b (0-based, end exclusive, clamped like Python)
Slice(buf, a, b) == SubSeq(buf, a + 1, Min(b, Len(buf)))

\* buf.find(pat, idx) for a 2-byte pattern: lowest 0-based index >= idx, or -1
Find(buf, pat, idx) ==
    LET hits == {i \in idx..(Len(buf) - 2) : buf[i + 1] = pat[1] /\ buf[i + 2] = pat[2]}
    IN  IF hits = {} THEN -1 ELSE CHOOSE i \in hits : \A j \in hits : i <= j

\* buf[-k:] : the last k bytes, and the whole of buf when k = 0 (since -0 = 0)
LastBytes(buf, k) ==
    IF k = 0 THEN buf ELSE Slice(buf, Max(0, Len(buf) - k), Len(buf))

VARIABLES
    image,            \* the DD image, a sequence of bytes
    image_size,       \* FileCarvingMasterParallel.image_size
    task_chunk_size,  \* FileCarvingMasterParallel.task_chunk_size
    overlap_size,     \* FileCarvingMasterParallel.overlap_size
    planted,          \* history: the artifacts written into the image, [offset, data]
    phase,            \* position of main(): "build", "accept", "run", "summary", "exit"
    b_start,          \* build_tasks: local start
    b_n,              \* build_tasks: local n
    tasks,            \* TaskQueue.q
    nworkers,         \* len(self.workers)
    spc,              \* worker_session: position of each session thread
    s_task,           \* worker_session: local task
    s_left,           \* receive_results: iterations left of for _ in range(n)
    s_file,           \* receive_results: locals offset, size, h of the current file
    apc,              \* FileCarvingWorkerParallel.run: position of each agent
    a_task,           \* run: the task message being worked on
    a_found,          \* run: the items of recovered not sent yet
    toMaster,         \* per connection, the frames written by the agent and not read yet
    toAgent,          \* per connection, the frames written by the session and not read yet
    file_hashes,      \* FileCarvingMasterParallel.file_hashes
    recovered_files,  \* FileCarvingMasterParallel.recovered_files
    tmp_files,        \* results_dir: the __tmp_w*_t*_off*.jpg files, name -> content
    final_files,      \* results_dir: the recovered_*_*.jpg files, name -> content
    reported,         \* history: every file an agent has sent, [offset, data, worker, task]
    count_sum,        \* history: the sum of the recovered_count values sent
    served,           \* history: the pops of the task queue in order, <<task_id, worker>>
    completed,        \* history: the ids of the tasks whose results have all been received
    c_chunk,          \* carve_jpeg_from_file: the content of chunk_path
    c_base,           \* carve_jpeg_from_file: base_offset
    c_scan_block,     \* carve_jpeg_from_file: scan_block
    c_tail_keep,      \* carve_jpeg_from_file: tail_keep
    c_pos,            \* carve_jpeg_from_file: read position of f
    c_carry,          \* carve_jpeg_from_file: carry
    c_carry_pos,      \* carve_jpeg_from_file: carry_pos
    c_found,          \* carve_jpeg_from_file: found
    c_pc,             \* carve_jpeg_from_file: "idle", "scan" (in the block loop), "done" (returned)
    alive,            \* per connection, whether the agent's end of the socket is still open
    failed,           \* history: the sessions that ended otherwise than by sending stop
    r_frame,          \* history: the bytes the peer meant to send, length prefix and payload
    r_stream,         \* the bytes that arrive on the socket before the peer closes it
    r_pc,             \* recv_json / recv_binary_stream_to_file: position
    r_total,          \* the local size / total unpacked from the length prefix
    r_out,            \* the payload read by recv_json, or the content written to out_path
    r_ret,            \* how the call ended: "None", "msg", "-1", "total", "IOError"
    sb_source,        \* send_binary_stream_from_file: the content of file_obj
    sb_start,         \* its argument start
    sb_end,           \* its argument end
    stream_block_size, \* self.stream_block_size of the sender
    sb_pc,            \* the sender's position
    sb_remaining,     \* its local remaining
    sock_stream,      \* the bytes written to the socket so far
    sock_pos,         \* how many of them the receiver's recv calls have returned
    rb_pc,            \* the worker's recv_binary_stream_to_file: position
    rb_buf,           \* buf of _recv_exact
    rb_total,         \* total unpacked from the length prefix
    rb_remaining,     \* its local remaining
    rb_sink,          \* the content of out_path
    rb_ret,           \* the value returned
    lock_owner,       \* per threading.Lock, the session thread inside its with block, or -1
    log,              \* per session, the lines it has printed with its [W<index>] tag
    wire,             \* history: per connection, the frames written to it by either end
    result_info,      \* FileCarvingMaster.process_worker: result_info of each worker
    pw_count          \* FileCarvingMaster.receive_results: local recovered_count

paramVars == <<image, image_size, task_chunk_size, overlap_size, planted>>
queueVars == <<b_start, b_n, tasks>>
sessVars == <<spc, s_task, s_left, s_file>>
agentVars == <<apc, a_task, a_found>>
chanVars == <<toMaster, toAgent>>
aggVars == <<file_hashes, recovered_files, tmp_files, final_files>>
histVars == <<reported, count_sum, served, completed>>
runVars == <<nworkers, sessVars, agentVars, chanVars, aggVars, histVars>>
carveVars == <<c_chunk, c_base, c_scan_block, c_tail_keep, c_pos, c_carry, c_carry_pos, c_found, c_pc>>
failVars == <<alive, failed>>
bulkVars == <<sb_source, sb_start, sb_end, stream_block_size, sb_pc, sb_remaining,
              sock_stream, sock_pos, rb_pc, rb_buf, rb_total, rb_remaining, rb_sink, rb_ret>>
recvVars == <<r_frame, r_stream, r_pc, r_total, r_out, r_ret, bulkVars>>
extVars == <<lock_owner, log, wire, result_info, pw_count>>
vars == <<paramVars, phase, queueVars, runVars, carveVars, failVars, recvVars, extVars>>

\* ------------------------------------------------- carve_jpeg_from_file
\* the inner while loop: scan buf from idx, buf[0] being chunk position buf_start_pos
\* jpg = buf[s:e + 2]; the first variant stops one byte short, the second takes
\* the rest of the buffer
JpgBytesShort(buf, s, e) == Slice(buf, s, e + 1)

JpgBytesToBufEnd(buf, s, e) == Slice(buf, s, Len(buf))

JpgBytes(buf, s, e) == Slice(buf, s, e + 2)

\* idx after a candidate from s to the end marker at e has been written:
\* idx = e + 2; the variant resumes just after the start marker
ResumeAfterStartMarker(s, e) == s + 2

ResumeAfterMatch(s, e) == e + 2

RECURSIVE ScanBuf(_, _, _, _)
ScanBuf(buf, idx, buf_start_pos, base_offset) ==
    LET s == Find(buf, SOI, idx)
    IN  IF s < 0 THEN << >>
        ELSE LET e == Find(buf, EOI, s + 2)
             IN  IF e < 0 THEN ScanBuf(buf, s + 2, buf_start_pos, base_offset)
                 ELSE LET jpg == JpgBytes(buf, s, e)
                          abs_off == base_offset + (buf_start_pos + s)
                      IN  <<[offset |-> abs_off, data |-> jpg, size |-> Len(jpg)]>>
                          \o ScanBuf(buf, ResumeAfterMatch(s, e), buf_start_pos, base_offset)

NextCarryPos(buf, buf_start_pos, tail_keep) ==
    IF Len(buf) > tail_keep THEN buf_start_pos + (Len(buf) - tail_keep) ELSE buf_start_pos

\* next_carry; the first variant carries nothing over, the second carries the
\* whole buffer
NextCarryNothing(buf, tail_keep) == << >>

NextCarryWholeBuf(buf, tail_keep) == buf

NextCarry(buf, tail_keep) ==
    IF Len(buf) > tail_keep THEN LastBytes(buf, tail_keep) ELSE buf

\* one iteration of the block loop on data = f.read(scan_block), data not empty
CarveBlock(data, carry, carry_pos, base_offset, tail_keep) ==
    LET buf == carry \o data
    IN  [found |-> ScanBuf(buf, 0, carry_pos, base_offset),
         carry |-> NextCarry(buf, tail_keep),
         carry_pos |-> NextCarryPos(buf, carry_pos, tail_keep)]

\* the whole function, from read position pos on
RECURSIVE CarveFrom(_, _, _, _, _, _, _)
CarveFrom(chunk, pos, carry, carry_pos, base_offset, scan_block, tail_keep) ==
    LET data == Slice(chunk, pos, pos + scan_block)
    IN  IF data = << >> THEN << >>
        ELSE LET r == CarveBlock(data, carry, carry_pos, base_offset, tail_keep)
             IN  r.found \o CarveFrom(chunk, pos + Len(data), r.carry, r.carry_pos,
                                      base_offset, scan_block, tail_keep)

carve_jpeg_from_file(chunk, base_offset, scan_block, tail_keep) ==
    CarveFrom(chunk, 0, << >>, 0, base_offset, scan_block, tail_keep)

\* the same function one block at a time
CarveReadBlock ==
    /\ c_pc = "scan"
    /\ LET data == Slice(c_chunk, c_pos, c_pos + c_scan_block)
       IN  /\ data # << >>
           /\ LET r == CarveBlock(data, c_carry, c_carry_pos, c_base, c_tail_keep)
              IN  /\ c_found' = c_found \o r.found
                  /\ c_carry' = r.carry
                  /\ c_carry_pos' = r.carry_pos
           /\ c_pos' = c_pos + Len(data)
    /\ UNCHANGED <<c_chunk, c_base, c_scan_block, c_tail_keep, c_pc, paramVars, phase, queueVars, runVars, failVars, recvVars, extVars>>

CarveReturn ==
    /\ c_pc = "scan"
    /\ Slice(c_chunk, c_pos, c_pos + c_scan_block) = << >>
    /\ c_pc' = "done"
    /\ UNCHANGED <<c_chunk, c_base, c_scan_block, c_tail_keep, c_pos, c_carry, c_carry_pos,
                   c_found, paramVars, phase, queueVars, runVars, failVars, recvVars, extVars>>

CarveIdle ==
    /\ c_chunk = << >> /\ c_base = 0 /\ c_scan_block = 1 /\ c_tail_keep = 1
    /\ c_pos = 0 /\ c_carry = << >> /\ c_carry_pos = 0 /\ c_found = << >> /\ c_pc = "idle"

\* no bulk frame is being sent
BulkIdle ==
    /\ sb_source = << >> /\ sb_start = 0 /\ sb_end = 0 /\ stream_block_size = 1
    /\ sb_pc = "idle" /\ sb_remaining = 0 /\ sock_stream = << >> /\ sock_pos = 0
    /\ rb_pc = "idle" /\ rb_buf = << >> /\ rb_total = 0 /\ rb_remaining = 0
    /\ rb_sink = << >> /\ rb_ret = "idle"

\* no receive call is in progress
RecvIdle ==
    /\ r_frame = << >> /\ r_stream = << >> /\ r_pc = "idle"
    /\ r_total = 0 /\ r_out = << >> /\ r_ret = "idle"
    /\ BulkIdle

\* ------------------------------------------------------------ build_tasks
\* variants of the range arithmetic: the whole overlap instead of half of it,
\* no clamping at 0, no clamping at N
ReadStartWholeOverlap(start, overlap) == IF start = 0 THEN 0 ELSE Max(0, start - overlap)

ReadStartUnclamped(start, overlap) == start - overlap \div 2

ReadStart(start, overlap) ==
    IF start = 0 THEN 0 ELSE Max(0, start - overlap \div 2)

\* variant: the read range stops where the ownership range stops
ReadEndOwnedOnly(end, size, overlap) == end

ReadEnd(end, size, overlap) ==
    IF end = size THEN size ELSE Min(size, end + overlap \div 2)

TaskEndUnclamped(start, size, chunk) == start + chunk

TaskEnd(start, size, chunk) == Min(size, start + chunk)

MakeTask(n, start, size, chunk, overlap) ==
    LET end == TaskEnd(start, size, chunk)
        read_start == ReadStart(start, overlap)
        read_end == ReadEnd(end, size, overlap)
    IN  [task_id |-> n,
         start_offset |-> start,
         end_offset |-> end,
         read_start |-> read_start,
         read_end |-> read_end,
         chunk_size |-> read_end - read_start]

\* one iteration of the while loop of build_tasks
BuildTask ==
    /\ phase = "build"
    /\ b_start < image_size
    /\ LET task == MakeTask(b_n, b_start, image_size, task_chunk_size, overlap_size)
       IN  /\ tasks' = Append(tasks, task)
           /\ b_n' = b_n + 1
           /\ b_start' = task.end_offset
    /\ UNCHANGED <<paramVars, phase, runVars, carveVars, failVars, recvVars, extVars>>

\* the loop condition fails: build_tasks returns and main() calls start_server
BuildDone ==
    /\ phase = "build"
    /\ ~(b_start < image_size)
    /\ phase' = "accept"
    /\ UNCHANGED <<paramVars, queueVars, runVars, carveVars, failVars, recvVars, extVars>>

\* ------------------------------------------------------ the connections
MaxWorkers == 2
W == 0..(MaxWorkers - 1)

NoTask == [task_id |-> -1, start_offset |-> 0, end_offset |-> 0,
           read_start |-> 0, read_end |-> 0, chunk_size |-> 0]
NoFile == [offset |-> -1, size |-> 0, h |-> << >>]

\* TaskQueue.lock, hash_lock and recovered_lock
Locks == {"tasks", "hash", "recovered"}

\* what a session prints with its own tag is kept per session
Logged(lg, w, lines) == [lg EXCEPT ![w] = @ \o lines]

\* the frames a connection has carried, each with the end that wrote it
WireSend(wr, w, end, frames) ==
    [wr EXCEPT ![w] = @ \o [i \in 1..Len(frames) |-> [from |-> end, frame |-> frames[i]]]]

\* FileCarvingMaster.process_worker: result_info as it is initialised
NoInfo == [success |-> FALSE, recovered_count |-> 0, error |-> FALSE]

\* send_json: a 4-byte length and the JSON payload
JsonFrame(msg) == [framing |-> "json", msg |-> msg]

\* send_binary_stream_from_file: an 8-byte length and the bytes
BinFrame(data) == [framing |-> "bin", total |-> Len(data), data |-> data]

\* hashlib.md5 over the content of a file, as an injective digest
Md5(data) == data

\* name -> content maps of the files of results_dir
WriteFile(dir, name, data) ==
    [n \in (DOMAIN dir) \cup {name} |-> IF n = name THEN data ELSE dir[n]]

Unlink(dir, name) == [n \in (DOMAIN dir) \ {name} |-> dir[n]]

TmpName(w, task_id, offset) == <<w, task_id, offset>>

FinalName(offset, h) == <<offset, h>>

\* ---------------------------------------------------------- start_server
\* one turn of the accept loop: an agent connects and sends its hello (connect),
\* the master reads it and appends the connection
Accept ==
    /\ phase = "accept"
    /\ nworkers < MaxWorkers
    /\ nworkers' = nworkers + 1
    /\ apc' = [apc EXCEPT ![nworkers] = "request"]
    /\ alive' = [alive EXCEPT ![nworkers] = TRUE]
    /\ UNCHANGED <<paramVars, phase, queueVars, sessVars, a_task, a_found, chanVars,
                   aggVars, histVars, carveVars, failed, recvVars, extVars>>

\* for idx, (sock, addr, info) in enumerate(self.workers): one thread for every
\* connection; the variant starts a thread for the first connection only
ThreadForFirstOnly(n) == [w \in W |-> IF w = 0 /\ n > 0 THEN "recv_request" ELSE "none"]

ThreadsStarted(n) == [w \in W |-> IF w < n THEN "recv_request" ELSE "none"]

\* accept times out: without workers start_server returns, otherwise one session
\* thread per connection is started
AcceptTimeout ==
    /\ phase = "accept"
    /\ IF nworkers = 0
       THEN /\ phase' = "exit"
            /\ spc' = spc
       ELSE /\ phase' = "run"
            /\ spc' = ThreadsStarted(nworkers)
    /\ UNCHANGED <<paramVars, queueVars, nworkers, s_task, s_left, s_file, agentVars,
                   chanVars, aggVars, histVars, carveVars, failVars, recvVars, extVars>>

\* for t in threads: t.join() has returned for every thread; the variant does
\* not wait for the threads
NoJoin == TRUE

AllJoined == \A w \in W : w < nworkers => spc[w] = "closed"

\* every thread is joined, then print_summary
Summary ==
    /\ phase = "run"
    /\ AllJoined
    /\ phase' = "summary"
    /\ UNCHANGED <<paramVars, queueVars, runVars, carveVars, failVars, recvVars, extVars>>

\* -------------------------------------------------------------- TaskQueue
\* pop under the lock: None on an empty deque, else popleft; PopLeft is the
\* deque that is left.  The variant returns the head without removing it.
PopLeftKeepsHead(q) == q

PopLeft(q) == Tail(q)

\* the item pop returns; the variant returns the item pushed last
PopResultNewest(q) == IF q = << >> THEN NoTask ELSE q[Len(q)]

PopResult(q) == IF q = << >> THEN NoTask ELSE Head(q)

\* -------------------------------------------------------- worker_session
\* the position of a session after it has sent stop: it returns, and the
\* finally clause closes the socket; the variant goes on reading requests
AfterStopLoops == "recv_request"

AfterStop == "closed"

\* what the session writes for a task: the task message, then the bytes
\* [read_start, read_end) of the image as one bulk frame
TaskFrames(task, img) ==
    <<JsonFrame([type |-> "task", task |-> task]),
      BinFrame(Slice(img, task.read_start, task.read_end))>>

\* recv_json of the request, TaskQueue.pop, then stop, or the task and its chunk
SessionServe(w) ==
    /\ spc[w] = "recv_request"
    /\ toMaster[w] # << >>
    /\ Head(toMaster[w]).framing = "json"
    /\ toMaster' = [toMaster EXCEPT ![w] = Tail(@)]
    /\ LET msg == Head(toMaster[w]).msg
       IN  IF msg.type # "request_task"
           THEN /\ spc' = [spc EXCEPT ![w] = "closed"]
                /\ log' = Logged(log, w, <<"unexpected msg">>)
                /\ UNCHANGED <<tasks, toAgent, s_task, served, wire>>
           ELSE IF PopResult(tasks) = NoTask
           THEN /\ toAgent' = [toAgent EXCEPT ![w] = Append(@, JsonFrame([type |-> "stop"]))]
                /\ wire' = WireSend(wire, w, "master", <<JsonFrame([type |-> "stop"])>>)
                /\ log' = Logged(log, w, <<"stop">>)
                /\ spc' = [spc EXCEPT ![w] = AfterStop]
                /\ UNCHANGED <<tasks, s_task, served>>
           ELSE LET task == PopResult(tasks)
                    frames == TaskFrames(task, image)
                IN  /\ tasks' = PopLeft(tasks)
                    /\ served' = Append(served, <<task.task_id, w>>)
                    /\ toAgent' = [toAgent EXCEPT ![w] = @ \o frames]
                    /\ wire' = WireSend(wire, w, "master", frames)
                    /\ s_task' = [s_task EXCEPT ![w] = task]
                    /\ spc' = [spc EXCEPT ![w] = "recv_header"]
                    /\ log' = log
    /\ UNCHANGED <<paramVars, phase, b_start, b_n, nworkers, s_left, s_file, agentVars,
                   aggVars, reported, count_sum, completed, carveVars, failVars, recvVars,
                   lock_owner, result_info, pw_count>>

\* the tasks whose results have all been received, once a session has left more
\* results of task to read
CompletedWith(done, task, left) == IF left = 0 THEN done \cup {task.task_id} ELSE done

\* receive_results: the result header
SessionRecvHeader(w) ==
    /\ spc[w] = "recv_header"
    /\ toMaster[w] # << >>
    /\ Head(toMaster[w]).framing = "json"
    /\ toMaster' = [toMaster EXCEPT ![w] = Tail(@)]
    /\ LET header == Head(toMaster[w]).msg
       IN  IF header.type # "result"
           THEN /\ spc' = [spc EXCEPT ![w] = "recv_request"]
                /\ s_left' = s_left
                /\ log' = Logged(log, w, <<"header error">>)
                /\ completed' = completed
           ELSE /\ s_left' = [s_left EXCEPT ![w] = header.recovered_count]
                /\ spc' = [spc EXCEPT ![w] =
                       IF header.recovered_count > 0 THEN "recv_meta" ELSE "recv_request"]
                /\ log' = Logged(log, w, <<"result">>)
                /\ completed' = CompletedWith(completed, s_task[w], header.recovered_count)
    /\ UNCHANGED <<paramVars, phase, queueVars, nworkers, s_task, s_file, agentVars,
                   toAgent, aggVars, reported, count_sum, served, carveVars, failVars,
                   recvVars, lock_owner, wire, result_info, pw_count>>

\* the position after one iteration of for _ in range(n), with left iterations to
\* go; the variant leaves the loop one iteration early
AfterIterationEarly(left) == IF left > 1 THEN "recv_meta" ELSE "recv_request"

AfterIteration(left) == IF left > 0 THEN "recv_meta" ELSE "recv_request"

\* receive_results: the meta message of one file
SessionRecvMeta(w) ==
    /\ spc[w] = "recv_meta"
    /\ toMaster[w] # << >>
    /\ Head(toMaster[w]).framing = "json"
    /\ toMaster' = [toMaster EXCEPT ![w] = Tail(@)]
    /\ LET meta == Head(toMaster[w]).msg
       IN  IF meta.type # "file"
           THEN /\ spc' = [spc EXCEPT ![w] = "recv_request"]
                /\ s_file' = s_file
           ELSE /\ s_file' = [s_file EXCEPT ![w] = [offset |-> meta.offset, size |-> 0, h |-> << >>]]
                /\ spc' = [spc EXCEPT ![w] = "recv_bin"]
    /\ UNCHANGED <<paramVars, phase, queueVars, nworkers, s_task, s_left, agentVars,
                   toAgent, aggVars, histVars, carveVars, failVars, recvVars, extVars>>

\* recv_binary_stream_to_file: the content written to out_path from one bulk frame;
\* the variant returns before the last byte
RecvBinaryShort(frame) == Slice(frame.data, 0, frame.total - 1)

RecvBinary(frame) == frame.data

\* if h in self.file_hashes; the variant never finds a duplicate
IsDuplicateNever(h, hashes) == FALSE

IsDuplicate(h, hashes) == h \in hashes

\* receive_results: the bytes of one file into the temporary file, its md5, and
\* the critical section of hash_lock
SessionRecvBin(w) ==
    /\ spc[w] = "recv_bin"
    /\ toMaster[w] # << >>
    /\ Head(toMaster[w]).framing = "bin"
    /\ Len(Head(toMaster[w]).data) = Head(toMaster[w]).total
    /\ toMaster' = [toMaster EXCEPT ![w] = Tail(@)]
    /\ LET frame == Head(toMaster[w])
           tmp_path == TmpName(w, s_task[w].task_id, s_file[w].offset)
           written == WriteFile(tmp_files, tmp_path, RecvBinary(frame))
           size == frame.total
           h == Md5(written[tmp_path])
       IN  IF size <= 0 \/ IsDuplicate(h, file_hashes)
           THEN /\ tmp_files' = Unlink(written, tmp_path)
                /\ s_left' = [s_left EXCEPT ![w] = @ - 1]
                /\ spc' = [spc EXCEPT ![w] = AfterIteration(s_left[w] - 1)]
                /\ completed' = CompletedWith(completed, s_task[w], s_left[w] - 1)
                /\ UNCHANGED <<file_hashes, s_file>>
           ELSE /\ tmp_files' = written
                /\ file_hashes' = file_hashes \cup {h}
                /\ s_file' = [s_file EXCEPT ![w] = [offset |-> @.offset, size |-> size, h |-> h]]
                /\ spc' = [spc EXCEPT ![w] = "persist"]
                /\ s_left' = s_left
                /\ completed' = completed
    /\ UNCHANGED <<paramVars, phase, queueVars, nworkers, s_task, agentVars, toAgent,
                   recovered_files, final_files, reported, count_sum, served, carveVars,
                   failVars, recvVars, extVars>>

\* receive_results: tmp_path.replace(final_path)
SessionPersist(w) ==
    /\ spc[w] = "persist"
    /\ LET tmp_path == TmpName(w, s_task[w].task_id, s_file[w].offset)
           final_name == FinalName(s_file[w].offset, s_file[w].h)
       IN  /\ final_files' = WriteFile(final_files, final_name, tmp_files[tmp_path])
           /\ tmp_files' = Unlink(tmp_files, tmp_path)
    /\ spc' = [spc EXCEPT ![w] = "record"]
    /\ UNCHANGED <<paramVars, phase, queueVars, nworkers, s_task, s_left, s_file, agentVars,
                   chanVars, file_hashes, recovered_files, histVars, carveVars, failVars, recvVars, extVars>>

\* receive_results: the critical section of recovered_lock, end of the iteration
SessionRecord(w) ==
    /\ spc[w] = "record"
    /\ recovered_files' = Append(recovered_files,
           [filename |-> FinalName(s_file[w].offset, s_file[w].h),
            size |-> s_file[w].size,
            offset |-> s_file[w].offset,
            hash |-> s_file[w].h,
            worker |-> w,
            task |-> s_task[w].task_id])
    /\ s_left' = [s_left EXCEPT ![w] = @ - 1]
    /\ spc' = [spc EXCEPT ![w] = AfterIteration(s_left[w] - 1)]
    /\ completed' = CompletedWith(completed, s_task[w], s_left[w] - 1)
    /\ UNCHANGED <<paramVars, phase, queueVars, nworkers, s_task, s_file, agentVars,
                   chanVars, file_hashes, tmp_files, final_files, reported, count_sum, served,
                   carveVars, failVars, recvVars, extVars>>

\* ------------------------------------------- FileCarvingWorkerParallel.run
\* the defaults of carve_jpeg_from_file, which run never overrides, scaled down
ScanBlock == 6
TailKeep == 5

\* the worker's recv_binary_stream_to_file: the content written to out_path
WorkerRecvBinary(frame) == frame.data

AgentRequest(w) ==
    /\ apc[w] = "request"
    /\ toMaster' = [toMaster EXCEPT ![w] = Append(@, JsonFrame([type |-> "request_task"]))]
    /\ wire' = WireSend(wire, w, "agent", <<JsonFrame([type |-> "request_task"])>>)
    /\ apc' = [apc EXCEPT ![w] = "recv_reply"]
    /\ UNCHANGED <<paramVars, phase, queueVars, nworkers, sessVars, a_task, a_found,
                   toAgent, aggVars, histVars, carveVars, failVars, recvVars,
                   lock_owner, log, result_info, pw_count>>

\* the position of the agent after a reply that is neither stop nor task: run
\* returns; the variant goes round the loop and asks again
AfterOtherReplyAsksAgain == "request"

AfterOtherReply == "exit"

AgentRecvReply(w) ==
    /\ apc[w] = "recv_reply"
    /\ toAgent[w] # << >>
    /\ Head(toAgent[w]).framing = "json"
    /\ toAgent' = [toAgent EXCEPT ![w] = Tail(@)]
    /\ LET msg == Head(toAgent[w]).msg
       IN  IF msg.type = "stop" \/ msg.type # "task"
           THEN /\ apc' = [apc EXCEPT ![w] = IF msg.type = "stop" THEN "exit" ELSE AfterOtherReply]
                /\ a_task' = a_task
           ELSE /\ apc' = [apc EXCEPT ![w] = "recv_chunk"]
                /\ a_task' = [a_task EXCEPT ![w] = msg.task]
    /\ UNCHANGED <<paramVars, phase, queueVars, nworkers, sessVars, a_found, toMaster,
                   aggVars, histVars, carveVars, failVars, recvVars, extVars>>

\* the chunk into chunk.bin, the carving, and the result header
AgentRecvChunk(w) ==
    /\ apc[w] = "recv_chunk"
    /\ toAgent[w] # << >>
    /\ Head(toAgent[w]).framing = "bin"
    /\ toAgent' = [toAgent EXCEPT ![w] = Tail(@)]
    /\ LET chunk == WorkerRecvBinary(Head(toAgent[w]))
           recovered == carve_jpeg_from_file(chunk, a_task[w].read_start, ScanBlock, TailKeep)
           header == JsonFrame([type |-> "result", task_id |-> a_task[w].task_id,
                                recovered_count |-> Len(recovered)])
       IN  /\ toMaster' = [toMaster EXCEPT ![w] = Append(@, header)]
           /\ wire' = WireSend(wire, w, "agent", <<header>>)
           /\ count_sum' = count_sum + Len(recovered)
           /\ a_found' = [a_found EXCEPT ![w] = recovered]
           /\ apc' = [apc EXCEPT ![w] = IF recovered = << >> THEN "request" ELSE "send_files"]
    /\ UNCHANGED <<paramVars, phase, queueVars, nworkers, sessVars, a_task, aggVars,
                   reported, served, completed, carveVars, failVars, recvVars,
                   lock_owner, log, result_info, pw_count>>

\* what one iteration of for item in recovered writes: the meta message as a
\* control frame, then the file as a bulk frame; the variant writes the file first
FileFramesBulkFirst(item) ==
    <<BinFrame(item.data),
      JsonFrame([type |-> "file", offset |-> item.offset, size |-> item.size])>>

FileFrames(item) ==
    <<JsonFrame([type |-> "file", offset |-> item.offset, size |-> item.size]),
      BinFrame(item.data)>>

\* one iteration of for item in recovered: the meta message and the file
AgentSendFile(w) ==
    /\ apc[w] = "send_files"
    /\ LET item == Head(a_found[w])
       IN  /\ toMaster' = [toMaster EXCEPT ![w] = @ \o FileFrames(item)]
           /\ wire' = WireSend(wire, w, "agent", FileFrames(item))
           /\ reported' = reported \cup {[offset |-> item.offset, data |-> item.data,
                                          worker |-> w, task |-> a_task[w]]}
    /\ a_found' = [a_found EXCEPT ![w] = Tail(@)]
    /\ apc' = [apc EXCEPT ![w] = IF Tail(a_found[w]) = << >> THEN "request" ELSE "send_files"]
    /\ UNCHANGED <<paramVars, phase, queueVars, nworkers, sessVars, a_task, toAgent,
                   aggVars, count_sum, served, completed, carveVars, failVars, recvVars,
                   lock_owner, log, result_info, pw_count>>

\* ------------------------------------------------------- initial states
RunIdle ==
    /\ nworkers = 0
    /\ spc = [w \in W |-> "none"]
    /\ s_task = [w \in W |-> NoTask]
    /\ s_left = [w \in W |-> 0]
    /\ s_file = [w \in W |-> NoFile]
    /\ apc = [w \in W |-> "none"]
    /\ a_task = [w \in W |-> NoTask]
    /\ a_found = [w \in W |-> << >>]
    /\ toMaster = [w \in W |-> << >>]
    /\ toAgent = [w \in W |-> << >>]
    /\ file_hashes = {}
    /\ recovered_files = << >>
    /\ tmp_files = << >>
    /\ final_files = << >>
    /\ reported = {}
    /\ count_sum = 0
    /\ served = << >>
    /\ completed = {}
    /\ alive = [w \in W |-> FALSE]
    /\ failed = {}
    /\ lock_owner = [l \in Locks |-> -1]
    /\ log = [w \in W |-> << >>]
    /\ wire = [w \in W |-> << >>]
    /\ result_info = [w \in W |-> NoInfo]
    /\ pw_count = [w \in W |-> 0]

\* the artifacts of the test image: FF D8, one filler byte, FF D9
Templates == {<<FF, D8, 1, FF, D9>>, <<FF, D8, 2, FF, D9>>}
MaxPlanted == 2
RunImageSize == 10
\* the pairs <<task_chunk_size, overlap_size>> of the runs
RunConfigs == {<<6, 0>>, <<6, 4>>, <<6, 10>>, <<4, 0>>}

Disjoint(p, q) ==
    p.offset + Len(p.data) <= q.offset \/ q.offset + Len(q.data) <= p.offset

Plantings(n) ==
    LET slots == {[offset |-> o, data |-> d] : o \in 0..n, d \in Templates}
        fits == {p \in slots : p.offset + Len(p.data) <= n}
    IN  {P \in SUBSET fits :
            /\ Cardinality(P) <= MaxPlanted
            /\ \A p, q \in P : p = q \/ Disjoint(p, q)}

\* create_test_image: zeros, with the artifacts of P written at their offsets
PlantedImage(P, n) ==
    [i \in 1..n |->
        IF \E p \in P : p.offset < i /\ i <= p.offset + Len(p.data)
        THEN LET p == CHOOSE q \in P : q.offset < i /\ i <= q.offset + Len(q.data)
             IN  p.data[i - p.offset]
        ELSE 0]

Init ==
    /\ planted \in Plantings(RunImageSize)
    /\ image = PlantedImage(planted, RunImageSize)
    /\ image_size = Len(image)
    /\ \E cfg \in RunConfigs :
          /\ task_chunk_size = cfg[1]
          /\ overlap_size = cfg[2]
    /\ phase = "build"
    /\ b_start = 0
    /\ b_n = 0
    /\ tasks = << >>
    /\ RunIdle
    /\ CarveIdle
    /\ RecvIdle

Next ==
    \/ BuildTask
    \/ BuildDone
    \/ Accept
    \/ AcceptTimeout
    \/ Summary
    \/ \E w \in W : SessionServe(w)
    \/ \E w \in W : SessionRecvHeader(w)
    \/ \E w \in W : SessionRecvMeta(w)
    \/ \E w \in W : SessionRecvBin(w)
    \/ \E w \in W : SessionPersist(w)
    \/ \E w \in W : SessionRecord(w)
    \/ \E w \in W : AgentRequest(w)
    \/ \E w \in W : AgentRecvReply(w)
    \/ \E w \in W : AgentRecvChunk(w)
    \/ \E w \in W : AgentSendFile(w)

Spec == Init /\ [][Next]_vars

\* ------------------------------------------------- connection failures
\* a bulk frame whose sender died after k bytes of the payload
CutBinFrame(data, k) == [framing |-> "bin", total |-> Len(data), data |-> Slice(data, 0, k)]

\* the except and finally clauses of worker_session: the session that raised is
\* closed, the others are left alone; the variant closes every session
ClosedAllByError(pcs, w) == [v \in W |-> "closed"]

ClosedByError(pcs, w) == [pcs EXCEPT ![w] = "closed"]

\* the queue after a session has ended while serving task: nothing is pushed;
\* the variant puts the task back
RequeuedAfterError(q, task) == Append(q, task)

QueueAfterError(q, task) == q

\* the agent process dies, or its host drops the connection, between two sends
AgentCrash(w) ==
    /\ alive[w]
    /\ apc[w] \in {"request", "recv_reply", "recv_chunk", "send_files"}
    /\ alive' = [alive EXCEPT ![w] = FALSE]
    /\ apc' = [apc EXCEPT ![w] = "dead"]
    /\ UNCHANGED <<paramVars, phase, queueVars, nworkers, sessVars, a_task, a_found,
                   chanVars, aggVars, histVars, carveVars, failed, recvVars, extVars>>

\* the agent dies inside send_binary_stream_from_file: the meta message and the
\* length prefix are out, the payload is cut after k bytes
AgentCrashMidFile(w) ==
    /\ alive[w]
    /\ apc[w] = "send_files"
    /\ LET item == Head(a_found[w])
       IN  \E k \in 0..(item.size - 1) :
               LET frames == <<JsonFrame([type |-> "file", offset |-> item.offset,
                                          size |-> item.size]),
                               CutBinFrame(item.data, k)>>
               IN  /\ toMaster' = [toMaster EXCEPT ![w] = @ \o frames]
                   /\ wire' = WireSend(wire, w, "agent", frames)
    /\ alive' = [alive EXCEPT ![w] = FALSE]
    /\ apc' = [apc EXCEPT ![w] = "dead"]
    /\ UNCHANGED <<paramVars, phase, queueVars, nworkers, sessVars, a_task, a_found,
                   toAgent, aggVars, histVars, carveVars, failed, recvVars,
                   lock_owner, log, result_info, pw_count>>

\* what a session prints when a read at position pc finds the connection closed:
\* the header error of receive_results if the header is missing, then the line
\* of the request loop; the variant prints nothing for a missing header
EofLinesQuiet(pc) == << >>

EofLines(pc) ==
    IF pc = "recv_header" THEN <<"header error", "closed (recv failed)">>
    ELSE <<"closed (recv failed)">>

\* a read of the session finds the connection closed with nothing left to read:
\* recv_json returns None (recv_binary_stream_to_file returns -1, the file is
\* skipped and the next recv_json returns None), receive_results returns, and
\* the request loop returns on the next recv_json
SessionEof(w) ==
    /\ spc[w] \in {"recv_request", "recv_header", "recv_meta", "recv_bin"}
    /\ toMaster[w] = << >>
    /\ ~alive[w]
    /\ spc' = ClosedByError(spc, w)
    /\ tasks' = IF spc[w] = "recv_request" THEN tasks ELSE QueueAfterError(tasks, s_task[w])
    /\ failed' = failed \cup {w}
    /\ log' = Logged(log, w, EofLines(spc[w]))
    /\ UNCHANGED <<paramVars, phase, b_start, b_n, nworkers, s_task, s_left, s_file,
                   agentVars, chanVars, aggVars, histVars, carveVars, alive, recvVars,
                   lock_owner, wire, result_info, pw_count>>

\* recv_binary_stream_to_file on a cut bulk frame: the bytes that arrived are in
\* the temporary file, IOError is raised and ends the session
SessionTruncated(w) ==
    /\ spc[w] = "recv_bin"
    /\ toMaster[w] # << >>
    /\ Head(toMaster[w]).framing = "bin"
    /\ Len(Head(toMaster[w]).data) < Head(toMaster[w]).total
    /\ toMaster' = [toMaster EXCEPT ![w] = Tail(@)]
    /\ tmp_files' = WriteFile(tmp_files, TmpName(w, s_task[w].task_id, s_file[w].offset),
                              Head(toMaster[w]).data)
    /\ spc' = ClosedByError(spc, w)
    /\ tasks' = QueueAfterError(tasks, s_task[w])
    /\ failed' = failed \cup {w}
    /\ log' = Logged(log, w, <<"error">>)
    /\ UNCHANGED <<paramVars, phase, b_start, b_n, nworkers, s_task, s_left, s_file,
                   agentVars, toAgent, file_hashes, recovered_files, final_files,
                   histVars, carveVars, alive, recvVars, lock_owner, wire, result_info, pw_count>>

\* the session reads a request of an agent that has died since, pops, and sendall
\* raises on the dead connection
SessionSendFail(w) ==
    /\ spc[w] = "recv_request"
    /\ toMaster[w] # << >>
    /\ Head(toMaster[w]).framing = "json"
    /\ Head(toMaster[w]).msg.type = "request_task"
    /\ ~alive[w]
    /\ toMaster' = [toMaster EXCEPT ![w] = Tail(@)]
    /\ IF PopResult(tasks) = NoTask
       THEN UNCHANGED <<tasks, s_task, served>>
       ELSE /\ tasks' = QueueAfterError(PopLeft(tasks), PopResult(tasks))
            /\ served' = Append(served, <<PopResult(tasks).task_id, w>>)
            /\ s_task' = [s_task EXCEPT ![w] = PopResult(tasks)]
    /\ spc' = ClosedByError(spc, w)
    /\ failed' = failed \cup {w}
    /\ log' = Logged(log, w, <<"error">>)
    /\ UNCHANGED <<paramVars, phase, b_start, b_n, nworkers, s_left, s_file,
                   agentVars, toAgent, aggVars, reported, count_sum, completed, carveVars,
                   alive, recvVars, lock_owner, wire, result_info, pw_count>>

NextFail ==
    \/ Next
    \/ \E w \in W : AgentCrash(w)
    \/ \E w \in W : AgentCrashMidFile(w)
    \/ \E w \in W : SessionEof(w)
    \/ \E w \in W : SessionTruncated(w)
    \/ \E w \in W : SessionSendFail(w)

\* the runs with failures: one artifact in the image, two or three tasks
FailConfigs == {<<6, 4>>, <<4, 0>>}

InitFail ==
    /\ planted \in {P \in Plantings(RunImageSize) :
                        \E p \in P : P = {p} /\ p.data = <<FF, D8, 1, FF, D9>>}
    /\ image = PlantedImage(planted, RunImageSize)
    /\ image_size = Len(image)
    /\ \E cfg \in FailConfigs :
          /\ task_chunk_size = cfg[1]
          /\ overlap_size = cfg[2]
    /\ phase = "build"
    /\ b_start = 0
    /\ b_n = 0
    /\ tasks = << >>
    /\ RunIdle
    /\ CarveIdle
    /\ RecvIdle

SpecFail == InitFail /\ [][NextFail]_vars

\* --------------------------------------------- specification of build_tasks
InitBuild ==
    /\ image \in {Zeros(n) : n \in 0..MaxImageSize}
    /\ image_size = Len(image)
    /\ task_chunk_size \in 1..MaxChunkSize
    /\ overlap_size \in 0..MaxOverlap
    /\ phase = "build"
    /\ b_start = 0
    /\ b_n = 0
    /\ tasks = << >>
    /\ planted = {}
    /\ RunIdle
    /\ CarveIdle
    /\ RecvIdle

NextBuild == BuildTask \/ BuildDone

SpecBuild == InitBuild /\ [][NextBuild]_vars

\* ------------------------------- specification of carve_jpeg_from_file
CarveBytes == {0, FF, D8, D9}

\* chunks with a second start marker between a start marker and its end marker
NestedChunks == {<<FF, D8, FF, D8, FF, D9>>, <<0, FF, D8, FF, D8, FF, D9>>}

InitCarve ==
    /\ image = << >> /\ image_size = 0 /\ task_chunk_size = 1 /\ overlap_size = 0
    /\ phase = "carve" /\ b_start = 0 /\ b_n = 0 /\ tasks = << >>
    /\ planted = {}
    /\ RunIdle
    /\ c_chunk \in SeqsUpTo(CarveBytes, MaxCarveLen) \cup NestedChunks
    /\ c_base \in {0, 7}
    /\ c_scan_block \in 1..MaxScanBlock
    /\ c_tail_keep \in 0..MaxTailKeep
    /\ c_pos = 0 /\ c_carry = << >> /\ c_carry_pos = 0 /\ c_found = << >> /\ c_pc = "scan"
    /\ RecvIdle

NextCarve == CarveReadBlock \/ CarveReturn

SpecCarve == InitCarve /\ [][NextCarve]_vars

\* -------------------- recv_json and recv_binary_stream_to_file, byte by byte
JSON_LEN_SIZE == 4
BIN_LEN_SIZE == 8
MaxPayload == 2
PayloadBytes == {1, 2}

\* struct.pack("!I", n) and struct.pack("!Q", n): n as width bytes, big-endian
RECURSIVE Pack(_, _)
Pack(n, width) ==
    IF width = 0 THEN << >> ELSE Append(Pack(n \div 256, width - 1), n % 256)

\* struct.unpack of either format
RECURSIVE Unpack(_)
Unpack(b) ==
    IF b = << >> THEN 0 ELSE 256 * Unpack(SubSeq(b, 1, Len(b) - 1)) + b[Len(b)]

\* _recv_exact(sock, n) with the socket at position pos of the stream and the peer
\* closing at its end: the n bytes if they arrive, else b"" whatever has arrived
RecvExact(stream, pos, n) ==
    IF Len(stream) - pos >= n THEN Slice(stream, pos, pos + n) ELSE << >>

\* what send_json / send_binary_stream_from_file write for a payload
JsonBytes(payload) == Pack(Len(payload), JSON_LEN_SIZE) \o payload

BinBytes(payload) == Pack(Len(payload), BIN_LEN_SIZE) \o payload

\* recv_json: the length prefix
RecvJsonSize ==
    /\ r_pc = "json_size"
    /\ LET size_b == RecvExact(r_stream, 0, JSON_LEN_SIZE)
       IN  IF size_b = << >>
           THEN /\ r_ret' = "None" /\ r_pc' = "returned" /\ r_total' = r_total
           ELSE /\ r_total' = Unpack(size_b) /\ r_pc' = "json_payload" /\ r_ret' = r_ret
    /\ UNCHANGED <<r_frame, r_stream, r_out, paramVars, phase, queueVars, runVars,
                   carveVars, failVars, extVars, bulkVars>>

\* recv_json: the payload and json.loads
RecvJsonPayload ==
    /\ r_pc = "json_payload"
    /\ LET payload == RecvExact(r_stream, JSON_LEN_SIZE, r_total)
       IN  IF payload = << >>
           THEN /\ r_ret' = "None" /\ r_out' = r_out
           ELSE /\ r_ret' = "msg" /\ r_out' = payload
    /\ r_pc' = "returned"
    /\ UNCHANGED <<r_frame, r_stream, r_total, paramVars, phase, queueVars, runVars,
                   carveVars, failVars, extVars, bulkVars>>

\* recv_binary_stream_to_file: the length prefix
RecvBinSize ==
    /\ r_pc = "bin_size"
    /\ LET size_b == RecvExact(r_stream, 0, BIN_LEN_SIZE)
       IN  IF size_b = << >>
           THEN /\ r_ret' = "-1" /\ r_pc' = "returned" /\ r_total' = r_total
           ELSE /\ r_total' = Unpack(size_b) /\ r_pc' = "bin_payload" /\ r_ret' = r_ret
    /\ UNCHANGED <<r_frame, r_stream, r_out, paramVars, phase, queueVars, runVars,
                   carveVars, failVars, extVars, bulkVars>>

\* recv_binary_stream_to_file: the loop that writes out_path; what sock.recv
\* returns before the close is written, then the empty recv raises IOError
RecvBinPayload ==
    /\ r_pc = "bin_payload"
    /\ LET written == Slice(r_stream, BIN_LEN_SIZE, BIN_LEN_SIZE + r_total)
       IN  /\ r_out' = written
           /\ IF Len(written) < r_total
              THEN r_ret' = "IOError" /\ r_pc' = "raised"
              ELSE r_ret' = "total" /\ r_pc' = "returned"
    /\ UNCHANGED <<r_frame, r_stream, r_total, paramVars, phase, queueVars, runVars,
                   carveVars, failVars, extVars, bulkVars>>

\* the peer writes one frame and the connection closes after k bytes of it
InitRecv ==
    /\ image = << >> /\ image_size = 0 /\ task_chunk_size = 1 /\ overlap_size = 0
    /\ phase = "recv" /\ b_start = 0 /\ b_n = 0 /\ tasks = << >>
    /\ planted = {}
    /\ RunIdle
    /\ CarveIdle
    /\ \E payload \in SeqsUpTo(PayloadBytes, MaxPayload) :
          \/ r_frame = JsonBytes(payload) /\ r_pc = "json_size"
          \/ r_frame = BinBytes(payload) /\ r_pc = "bin_size"
    /\ \E k \in 0..(BIN_LEN_SIZE + MaxPayload) :
          k <= Len(r_frame) /\ r_stream = Slice(r_frame, 0, k)
    /\ r_total = 0 /\ r_out = << >> /\ r_ret = "pending"
    /\ BulkIdle

NextRecv == RecvJsonSize \/ RecvJsonPayload \/ RecvBinSize \/ RecvBinPayload

SpecRecv == InitRecv /\ [][NextRecv]_vars

\* ======================================================== build_tasks
TaskIndexes == 1..Len(tasks)

\* C1: the k-th built task owns [k*C, min((k+1)*C, N)); the ownership ranges are
\* contiguous from 0, and once build_tasks has returned every offset of [0, N)
\* lies in exactly one of them and none reaches beyond N
C1_OwnershipPartition ==
    /\ \A k \in TaskIndexes :
          /\ tasks[k].task_id = k - 1
          /\ tasks[k].start_offset = (k - 1) * task_chunk_size
          /\ tasks[k].end_offset = Min(k * task_chunk_size, image_size)
          /\ tasks[k].start_offset =
                 IF k = 1 THEN 0 ELSE tasks[k - 1].end_offset
    /\ phase # "build" =>
          /\ \A x \in 0..(image_size - 1) :
                Cardinality({k \in TaskIndexes :
                    tasks[k].start_offset <= x /\ x < tasks[k].end_offset}) = 1
          /\ \A k \in TaskIndexes :
                0 <= tasks[k].start_offset /\ tasks[k].end_offset <= image_size

\* build_tasks has returned at least three tasks, the last one shorter than C
C1_Witness ==
    /\ phase = "accept"
    /\ Len(tasks) >= 3
    /\ image_size % task_chunk_size # 0

\* C2: every task in the queue has
\* 0 <= read_start <= start_offset <= end_offset <= read_end <= N
C2_TaskRangeOrder ==
    \A k \in TaskIndexes :
        /\ 0 <= tasks[k].read_start
        /\ tasks[k].read_start <= tasks[k].start_offset
        /\ tasks[k].start_offset <= tasks[k].end_offset
        /\ tasks[k].end_offset <= tasks[k].read_end
        /\ tasks[k].read_end <= image_size

\* an interior task whose read range is strictly wider than its ownership range
\* on both sides, and whose backward extension was clamped at 0
C2_Witness ==
    \E k \in TaskIndexes :
        /\ tasks[k].read_start < tasks[k].start_offset
        /\ tasks[k].end_offset < tasks[k].read_end
        /\ tasks[k].start_offset < overlap_size \div 2

\* C3: the read range extends the ownership range by floor(O/2) bytes on each
\* side, clamped to [0, N]: by min(O/2, start_offset) before and by
\* min(O/2, N - end_offset) after, hence by nothing at offset 0 and at N
C3_ReadRangeExtension ==
    \A k \in TaskIndexes :
        LET t == tasks[k]
            half == overlap_size \div 2
        IN  /\ t.start_offset - t.read_start = Min(half, t.start_offset)
            /\ t.read_end - t.end_offset = Min(half, image_size - t.end_offset)
            /\ t.start_offset = 0 => t.read_start = 0
            /\ t.end_offset = image_size => t.read_end = image_size
            /\ t.chunk_size = t.read_end - t.read_start

\* an interior task extended by exactly floor(O/2) > 0 on both sides, with O odd,
\* beside a first task with no extension at 0
C3_Witness ==
    /\ overlap_size % 2 = 1
    /\ overlap_size \div 2 > 0
    /\ \E k \in TaskIndexes :
        /\ k > 1
        /\ tasks[k].start_offset - tasks[k].read_start = overlap_size \div 2
        /\ tasks[k].read_end - tasks[k].end_offset = overlap_size \div 2
        /\ tasks[k].read_end < image_size
        /\ tasks[1].read_start = 0

\* ================================================= carving and aggregation
\* the whole of build_tasks, as a sequence of tasks
RECURSIVE BuildFrom(_, _, _, _, _)
BuildFrom(n, start, size, chunk, overlap) ==
    IF start < size
    THEN LET task == MakeTask(n, start, size, chunk, overlap)
         IN  <<task>> \o BuildFrom(n + 1, task.end_offset, size, chunk, overlap)
    ELSE << >>

BuiltTasks == BuildFrom(0, 0, image_size, task_chunk_size, overlap_size)

\* the files and records of the results directory as [offset, data]
PersistedFiles ==
    {[offset |-> name[1], data |-> final_files[name]] : name \in DOMAIN final_files}

RecordIndexes == 1..Len(recovered_files)

Owns(task, offset) == task.start_offset <= offset /\ offset < task.end_offset

\* C4: every file an agent reports for a task, and every record the master keeps
\* for it, starts inside the ownership range [start_offset, end_offset) of that task
C4_OwnershipFilter ==
    /\ \A r \in reported : Owns(r.task, r.offset)
    /\ \A i \in RecordIndexes :
          Owns(BuiltTasks[recovered_files[i].task + 1], recovered_files[i].offset)

\* C5: every item carve_jpeg_from_file has found holds the bytes the chunk has at
\* [offset - base_offset, offset - base_offset + size), the chunk being the image
\* from base_offset = read_start on
C5_CarveRoundTrip ==
    \A i \in 1..Len(c_found) :
        /\ c_found[i].size = Len(c_found[i].data)
        /\ c_found[i].offset >= c_base
        /\ c_found[i].data = Slice(c_chunk, c_found[i].offset - c_base,
                                   c_found[i].offset - c_base + c_found[i].size)

\* the part of C5 the code keeps: with tail_keep >= 1 the offsets are true
CarveRoundTripPositiveTailKeep ==
    c_tail_keep >= 1 => C5_CarveRoundTrip

\* the same round trip end to end with the defaults of run: every persisted file
\* holds the image bytes at the offset of its name
RoundTripWithDefaults ==
    \A f \in PersistedFiles :
        f.data = Slice(image, f.offset, f.offset + Len(f.data))

\* the reports of all tasks in queue order, each task's in carving order
RECURSIVE ReportsInOrder(_)
ReportsInOrder(ts) ==
    IF ts = << >> THEN << >>
    ELSE carve_jpeg_from_file(Slice(image, Head(ts).read_start, Head(ts).read_end),
                              Head(ts).read_start, ScanBlock, TailKeep)
         \o ReportsInOrder(Tail(ts))

\* what receive_results keeps of a sequence of reports handled one after the other
RECURSIVE KeptOf(_, _)
KeptOf(items, hashes) ==
    IF items = << >> THEN {}
    ELSE IF Md5(Head(items).data) \in hashes
    THEN KeptOf(Tail(items), hashes)
    ELSE {[offset |-> Head(items).offset, data |-> Head(items).data]}
         \cup KeptOf(Tail(items), hashes \cup {Md5(Head(items).data)})

\* the persisted set of the run in which one session drains the queue alone
SequentialPersisted == KeptOf(ReportsInOrder(BuiltTasks), {})

\* C6: whatever the interleaving of the sessions, the persisted files (offset and
\* content) at the summary are those of the run that drains the queue in order
C6_OrderIndependent ==
    phase = "summary" => PersistedFiles = SequentialPersisted

\* the part of C6 the code keeps: the persisted contents do not depend on the order
PersistedContentsOrderIndependent ==
    phase = "summary" =>
        {f.data : f \in PersistedFiles} = {f.data : f \in SequentialPersisted}

\* C7: no two result records share a hash and no two persisted files share a
\* content; at the summary every reported content has exactly one persisted file
\* and exactly one result record
C7_ContentDedup ==
    /\ \A i, j \in RecordIndexes :
          i # j => recovered_files[i].hash # recovered_files[j].hash
    /\ \A m, n \in DOMAIN final_files :
          m # n => Md5(final_files[m]) # Md5(final_files[n])
    /\ phase = "summary" =>
          \A r \in reported :
              /\ Cardinality({n \in DOMAIN final_files : final_files[n] = r.data}) = 1
              /\ Cardinality({i \in RecordIndexes :
                                  recovered_files[i].hash = Md5(r.data)}) = 1

\* the run is over and two sessions have reported the same content at two offsets
C7_Witness ==
    /\ phase = "summary"
    /\ \E r1, r2 \in reported :
          /\ r1.data = r2.data
          /\ r1.offset # r2.offset
          /\ r1.worker # r2.worker

\* C8: every persisted file and every result record is one of the files an agent
\* has sent, with that offset and the whole of its content
C8_PersistedWasReported ==
    /\ \A name \in DOMAIN final_files :
          \E r \in reported :
              /\ r.offset = name[1]
              /\ Md5(r.data) = name[2]
              /\ r.data = final_files[name]
    /\ \A i \in RecordIndexes :
          \E r \in reported :
              /\ r.offset = recovered_files[i].offset
              /\ Md5(r.data) = recovered_files[i].hash
              /\ Len(r.data) = recovered_files[i].size
              /\ r.worker = recovered_files[i].worker
              /\ r.task.task_id = recovered_files[i].task
              /\ recovered_files[i].filename \in DOMAIN final_files
              /\ final_files[recovered_files[i].filename] = r.data

\* two files are persisted and recorded
C8_Witness ==
    /\ Cardinality(DOMAIN final_files) = 2
    /\ Len(recovered_files) = 2

\* a planted artifact p starts before the end b of task t, ends after it, and the
\* overlap is at least twice the part of p beyond b
SpansBoundary(p, t) ==
    /\ t.end_offset < image_size
    /\ p.offset < t.end_offset
    /\ Owns(t, p.offset)
    /\ t.end_offset < p.offset + Len(p.data)
    /\ overlap_size >= 2 * (p.offset + Len(p.data) - t.end_offset)

\* C9: at the summary an artifact spanning a task boundary has exactly one record
\* and one file, and the record names the task that owns the artifact's start
C9_BoundaryArtifactAttribution ==
    phase = "summary" =>
        \A p \in planted : \A k \in 1..Len(BuiltTasks) :
            SpansBoundary(p, BuiltTasks[k]) =>
                /\ Cardinality({i \in RecordIndexes :
                       recovered_files[i].hash = Md5(p.data)}) = 1
                /\ \A i \in RecordIndexes :
                       recovered_files[i].hash = Md5(p.data) =>
                           /\ recovered_files[i].offset = p.offset
                           /\ recovered_files[i].task = BuiltTasks[k].task_id

\* the part of C9 the code keeps: the artifact is recovered exactly once
BoundaryArtifactRecoveredOnce ==
    phase = "summary" =>
        \A p \in planted : \A k \in 1..Len(BuiltTasks) :
            (SpansBoundary(p, BuiltTasks[k]) /\ Cardinality(planted) = 1) =>
                /\ Cardinality({i \in RecordIndexes :
                       recovered_files[i].hash = Md5(p.data)}) = 1
                /\ [offset |-> p.offset, data |-> p.data] \in PersistedFiles

\* the planted artifacts have pairwise distinct contents, none is larger than
\* tail_keep or than overlap_size / 2, and the image makes at least two tasks
EndToEndScenario ==
    /\ \A p, q \in planted : p # q => p.data # q.data
    /\ \A p \in planted :
          Len(p.data) <= TailKeep /\ Len(p.data) <= overlap_size \div 2
    /\ Len(BuiltTasks) >= 2

\* C10: in that scenario the run ends with exactly the planted artifacts persisted,
\* each at its offset with its bytes, one record each, and the recovered_count
\* values sum to at least their number
C10_EndToEnd ==
    (phase = "summary" /\ EndToEndScenario) =>
        /\ PersistedFiles = planted
        /\ Cardinality(DOMAIN final_files) = Cardinality(planted)
        /\ Len(recovered_files) = Cardinality(planted)
        /\ \A i, j \in RecordIndexes :
              i # j => recovered_files[i].hash # recovered_files[j].hash
        /\ tmp_files = << >>
        /\ count_sum >= Cardinality(planted)

\* the scenario with two artifacts, two sessions that both served a task, and
\* more reports than artifacts
C10_Witness ==
    /\ phase = "summary"
    /\ EndToEndScenario
    /\ Cardinality(planted) = 2
    /\ nworkers = 2
    /\ \E i, j \in 1..Len(served) : served[i][2] # served[j][2]
    /\ count_sum > 2

\* ============================================================ overlap
\* C11: an artifact that starts in the ownership range of a task and is at most
\* floor(overlap_size / 2) bytes long lies entirely inside the read range of
\* that task
C11_OverlapVisibility ==
    \A k \in TaskIndexes :
        \A off \in tasks[k].start_offset..(tasks[k].end_offset - 1) :
            \A size \in 1..(overlap_size \div 2) :
                off + size <= image_size =>
                    /\ tasks[k].read_start <= off
                    /\ off + size <= tasks[k].read_end

\* a task that is not the last one, where an artifact of floor(O/2) >= 2 bytes
\* starting at the last owned byte fits in the image and crosses the boundary
C11_Witness ==
    /\ phase = "accept"
    /\ overlap_size \div 2 >= 2
    /\ \E k \in TaskIndexes :
          /\ tasks[k].end_offset < image_size
          /\ tasks[k].end_offset - 1 + overlap_size \div 2 <= image_size
          /\ tasks[k].read_end < image_size

\* ================================================== sessions and the queue
StopFrame == JsonFrame([type |-> "stop"])

\* C12: a session that reads request_task while the queue is empty writes one stop
\* frame and is closed by that step; a stop frame is written by no other step; a
\* closed session stays closed and writes nothing more; an agent that reads stop
\* exits, stays exited and writes nothing more
C12_StopOnEmptyQueue ==
    [][\A w \in W :
          /\ (/\ spc[w] = "recv_request"
              /\ spc'[w] # spc[w]
              /\ toMaster[w] # << >>
              /\ Head(toMaster[w]).msg.type = "request_task"
              /\ tasks = << >>)
                 => /\ toAgent'[w] = Append(toAgent[w], StopFrame)
                    /\ spc'[w] = "closed"
                    /\ w \notin failed'
          /\ (/\ Len(toAgent'[w]) > Len(toAgent[w])
              /\ toAgent'[w][Len(toAgent'[w])] = StopFrame)
                 => /\ spc[w] = "recv_request"
                    /\ spc'[w] = "closed"
                    /\ tasks = << >>
          /\ spc[w] = "closed"
                 => /\ spc'[w] = "closed"
                    /\ Len(toAgent'[w]) <= Len(toAgent[w])
          /\ (/\ apc[w] = "recv_reply"
              /\ apc'[w] # apc[w]
              /\ Head(toAgent[w]) = StopFrame)
                 => /\ apc'[w] = "exit"
                    /\ toMaster'[w] = toMaster[w]
          /\ apc[w] = "exit"
                 => /\ apc'[w] = "exit"
                    /\ toMaster'[w] = toMaster[w]
      ]_vars

\* two sessions have served tasks, both have sent stop and are closed, and both
\* agents have read it and left their loops
C12_Witness ==
    /\ nworkers = 2
    /\ Len(served) >= 2
    /\ \A w \in W : spc[w] = "closed" /\ apc[w] = "exit" /\ toAgent[w] = << >>

ServedIndexes == 1..Len(served)

\* C13: no task id is popped twice, a popped task is no longer in the queue, and
\* no two sessions hold or have sent the same task
C13_PopOnce ==
    /\ \A i, j \in ServedIndexes : i # j => served[i][1] # served[j][1]
    /\ \A i \in ServedIndexes : \A k \in TaskIndexes : tasks[k].task_id # served[i][1]
    /\ \A w, v \in W :
          (w # v /\ s_task[w] # NoTask) => s_task[w].task_id # s_task[v].task_id
    /\ \A w, v \in W :
          (w # v /\ a_task[w] # NoTask) => a_task[w].task_id # a_task[v].task_id
    /\ phase \in {"accept", "run", "summary"} =>
          {served[i][1] : i \in ServedIndexes} \cup {tasks[k].task_id : k \in TaskIndexes}
              = {BuiltTasks[k].task_id : k \in 1..Len(BuiltTasks)}

\* two sessions are each working on a task they have popped, with tasks left
C13_Witness ==
    /\ phase = "run"
    /\ tasks # << >>
    /\ \E w, v \in W :
          /\ w # v
          /\ s_task[w] # NoTask /\ s_task[v] # NoTask
          /\ spc[w] = "recv_header" /\ spc[v] = "recv_header"

\* C16: the step that produces the summary is taken with every session thread
\* terminated, and once the summary is produced no file is persisted and no
\* record is appended
C16_SummaryAfterJoin ==
    [][/\ (phase # "summary" /\ phase' = "summary")
              => \A w \in W : w < nworkers => spc[w] = "closed"
       /\ phase = "summary"
              => /\ final_files' = final_files
                 /\ recovered_files' = recovered_files
                 /\ file_hashes' = file_hashes
      ]_vars

\* the summary of a run of two sessions that persisted at least one file
C16_Witness ==
    /\ phase = "summary"
    /\ nworkers = 2
    /\ Len(recovered_files) >= 1
    /\ \A w \in W : spc[w] = "closed"

\* the framing of the next frame a session reads, by its position
ExpectedBySession(pc) == IF pc = "recv_bin" THEN "bin" ELSE "json"

\* the framing of the next frame an agent reads, by its position
ExpectedByAgent(pc) == IF pc = "recv_chunk" THEN "bin" ELSE "json"

\* C17: on every connection the next unread frame has the framing that the next
\* read of its receiver expects
C17_FramingAgreement ==
    \A w \in W :
        /\ (toMaster[w] # << >> /\ spc[w] # "closed")
               => Head(toMaster[w]).framing = ExpectedBySession(spc[w])
        /\ (toAgent[w] # << >> /\ apc[w] # "exit")
               => Head(toAgent[w]).framing = ExpectedByAgent(apc[w])

\* a session is about to read a bulk frame while an agent is about to read one
C17_Witness ==
    \E w, v \in W :
        /\ spc[w] = "recv_bin" /\ toMaster[w] # << >>
        /\ Head(toMaster[w]).framing = "bin"
        /\ apc[v] = "recv_chunk" /\ toAgent[v] # << >>
        /\ Head(toAgent[v]).framing = "bin"

\* ====================================================== failing sessions
\* q after zero or more pops
IsSuffix(q2, q) == \E k \in 0..Len(q) : q2 = SubSeq(q, k + 1, Len(q))

\* C14: a connection is accepted only with the queue fully built; from then on
\* every step leaves a suffix of the queue; the task of a session that ends with
\* an error is not in the queue afterwards; no task id is popped twice
C14_QueueOnlyShrinks ==
    [][/\ nworkers' # nworkers => (phase = "accept" /\ tasks = BuiltTasks)
       /\ phase # "build" => IsSuffix(tasks', tasks)
       /\ \A w \in failed' \ failed :
              s_task'[w] # NoTask =>
                  \A k \in 1..Len(tasks') : tasks'[k].task_id # s_task'[w].task_id
       /\ \A i, j \in 1..Len(served') : i # j => served'[i][1] # served'[j][1]
      ]_vars

\* the run is over; one session ended with an error after popping a task its
\* agent never took, another session served a task and ended with stop
C14_Witness ==
    /\ phase = "summary"
    /\ \E w \in failed : \E v \in W \ failed :
          /\ v < nworkers
          /\ s_task[w] # NoTask
          /\ a_task[w] # s_task[w]
          /\ s_task[v] # NoTask

\* the session of connection v is blocked in a read with nothing to read
SessionWaits(v) ==
    /\ spc[v] \in {"recv_request", "recv_header", "recv_meta", "recv_bin"}
    /\ toMaster[v] = << >>

\* the agent of connection v is blocked in a read with nothing to read, or gone
AgentWaits(v) ==
    \/ apc[v] \in {"recv_reply", "recv_chunk"} /\ toAgent[v] = << >>
    \/ apc[v] = "exit"

\* C15: the step in which a session ends with an error changes nothing of any
\* other session, agent or connection; on a connection whose agent is up and
\* whose session is open, session and agent never both wait; and at the summary, if some session
\* ended with stop, the queue is empty, every such session has read all its
\* agent sent and left no temporary file, and every content its agent reported
\* is persisted
C15_FailureIsolation ==
    /\ [][\A w \in failed' \ failed : \A v \in W \ {w} :
              /\ spc'[v] = spc[v] /\ s_task'[v] = s_task[v]
              /\ s_left'[v] = s_left[v] /\ s_file'[v] = s_file[v]
              /\ apc'[v] = apc[v] /\ alive'[v] = alive[v]
              /\ toMaster'[v] = toMaster[v] /\ toAgent'[v] = toAgent[v]
         ]_vars
    /\ [](phase = "run" =>
              \A v \in W :
                  (v < nworkers /\ alive[v] /\ spc[v] # "closed")
                      => ~(SessionWaits(v) /\ AgentWaits(v)))
    /\ [](phase = "summary" =>
              \A v \in W \ failed :
                  v < nworkers =>
                      /\ tasks = << >>
                      /\ toMaster[v] = << >>
                      /\ \A name \in DOMAIN tmp_files : name[1] # v
                      /\ \A r \in reported :
                             r.worker = v =>
                                 \E name \in DOMAIN final_files : final_files[name] = r.data)

\* the run is over: a session that had popped a task ended with an error, and a
\* session that popped a later task ended with stop and a file is persisted
C15_Witness ==
    /\ phase = "summary"
    /\ tasks = << >>
    /\ Len(recovered_files) >= 1
    /\ \E i, j \in 1..Len(served) :
          /\ i < j
          /\ served[i][2] \in failed
          /\ served[j][2] \notin failed

\* ============================================== receiving from a closing peer
\* C18: recv_json returns None, its end-of-stream signal, only when the peer has
\* closed before any byte of the message arrived
C18_EosOnlyBeforeFirstByte ==
    r_ret = "None" => r_stream = << >>

\* what recv_json keeps: a message is returned only if the whole frame arrived,
\* and it is the payload that was sent; anything less gives None
RecvJsonAllOrNone ==
    r_pc \in {"returned", "raised"} =>
        /\ r_ret = "msg" => (r_stream = r_frame /\ JsonBytes(r_out) = r_frame)
        /\ (r_ret = "None" /\ Len(r_frame) > JSON_LEN_SIZE) => r_stream # r_frame
        /\ (r_ret \in {"None", "msg"} /\ r_stream # r_frame) => r_ret = "None"

\* C19: recv_binary_stream_to_file raises whenever the connection closes after
\* the first byte of a bulk frame and before its last, and returns the declared
\* length only with that many bytes written
C19_BulkTruncationFails ==
    r_ret \in {"-1", "total", "IOError"} =>
        /\ (r_stream # << >> /\ r_stream # r_frame) => r_ret = "IOError"
        /\ r_ret = "total" => (Len(r_out) = r_total /\ BinBytes(r_out) = r_frame)

\* what recv_binary_stream_to_file keeps: once the whole prefix has arrived a
\* short payload raises IOError, and the declared length is returned only with
\* every declared byte written
BulkTruncationAfterPrefixFails ==
    r_ret \in {"-1", "total", "IOError"} =>
        /\ (Len(r_stream) >= BIN_LEN_SIZE /\ r_stream # r_frame) => r_ret = "IOError"
        /\ Len(r_stream) < BIN_LEN_SIZE => r_ret = "-1"
        /\ r_ret = "total" => (Len(r_out) = r_total /\ BinBytes(r_out) = r_frame)

\* ===================================================== aggregator atomicity
HasFile(h) == \E name \in DOMAIN final_files : Md5(final_files[name]) = h

HasRecord(h) == \E i \in RecordIndexes : recovered_files[i].hash = h

\* C20: whenever a session finds the hash of the file it has received in the
\* dedup set, the file of that hash is persisted and its record is appended
C20_AggregatorAtomic ==
    [][\A w \in W :
          (/\ spc[w] = "recv_bin"
           /\ spc'[w] # spc[w]
           /\ toMaster[w] # << >>
           /\ IsDuplicate(Md5(Head(toMaster[w]).data), file_hashes))
              => /\ HasFile(Md5(Head(toMaster[w]).data))
                 /\ HasRecord(Md5(Head(toMaster[w]).data))
      ]_vars

\* what the code keeps: a hash without its file or record belongs to exactly one
\* session, which is between the hash_lock section and the append and still
\* holds the bytes, in its temporary file or already under the final name
HashPendingInOneSession ==
    \A h \in file_hashes :
        (~HasFile(h) \/ ~HasRecord(h)) =>
            /\ Cardinality({w \in W : spc[w] \in {"persist", "record"} /\ s_file[w].h = h}) = 1
            /\ \A w \in W :
                   (spc[w] = "persist" /\ s_file[w].h = h) =>
                       /\ TmpName(w, s_task[w].task_id, s_file[w].offset) \in DOMAIN tmp_files
                       /\ Md5(tmp_files[TmpName(w, s_task[w].task_id, s_file[w].offset)]) = h
            /\ \A w \in W : (spc[w] = "record" /\ s_file[w].h = h) => HasFile(h)

\* ------------------------- the session threads, one lock operation at a time
\* recovered_count of the results in these runs
LockMaxFiles == 1

\* the locks a session thread is inside of
Held(w) == {l \in Locks : lock_owner[l] = w}

\* leaving a with block releases its lock; the variant leaves it locked
StillLocked(owner, l) == owner

Released(owner, l) == [owner EXCEPT ![l] = -1]

\* the kind of operation a session performs next at each position
OpKind(pc) ==
    CASE pc \in {"recv_request", "send_stop", "send_task", "recv_header",
                 "recv_meta", "recv_bin"} -> "socket"
      [] pc \in {"md5", "dup_unlink", "replace"} -> "disk"
      [] pc \in {"pop", "hash_test", "append"} -> "memory"
      [] pc \in {"pop_enter", "hash_enter", "append_enter"} -> "acquire"
      [] pc \in {"pop_exit", "hash_exit", "dup_exit", "append_exit"} -> "release"
      [] OTHER -> "none"

\* the lock a session is about to enter
LockWanted(pc) ==
    CASE pc = "pop_enter" -> "tasks"
      [] pc = "hash_enter" -> "hash"
      [] pc = "append_enter" -> "recovered"
      [] OTHER -> "none"

\* what the lock-level steps leave alone
lockFrame == <<paramVars, phase, b_start, b_n, nworkers, agentVars, chanVars, histVars,
               carveVars, failVars, recvVars, log, wire, result_info, pw_count>>

\* worker_session: recv_json returns the request of the agent
LockRecvRequest(w) ==
    /\ spc[w] = "recv_request"
    /\ spc' = [spc EXCEPT ![w] = "pop_enter"]
    /\ UNCHANGED <<s_task, s_left, s_file, tasks, aggVars, lock_owner, lockFrame>>

\* with self.lock, with self.hash_lock, with self.recovered_lock: wait and enter
LockEnter(w) ==
    /\ OpKind(spc[w]) = "acquire"
    /\ lock_owner[LockWanted(spc[w])] = -1
    /\ lock_owner' = [lock_owner EXCEPT ![LockWanted(spc[w])] = w]
    /\ spc' = [spc EXCEPT ![w] = CASE spc[w] = "pop_enter" -> "pop"
                                   [] spc[w] = "hash_enter" -> "hash_test"
                                   [] spc[w] = "append_enter" -> "append"]
    /\ UNCHANGED <<s_task, s_left, s_file, tasks, aggVars, lockFrame>>

\* TaskQueue.pop inside the lock
LockPop(w) ==
    /\ spc[w] = "pop"
    /\ s_task' = [s_task EXCEPT ![w] = PopResult(tasks)]
    /\ tasks' = IF tasks = << >> THEN tasks ELSE PopLeft(tasks)
    /\ spc' = [spc EXCEPT ![w] = "pop_exit"]
    /\ UNCHANGED <<s_left, s_file, aggVars, lock_owner, lockFrame>>

\* TaskQueue.pop returns
LockPopExit(w) ==
    /\ spc[w] = "pop_exit"
    /\ lock_owner' = Released(lock_owner, "tasks")
    /\ spc' = [spc EXCEPT ![w] = IF s_task[w] = NoTask THEN "send_stop" ELSE "send_task"]
    /\ UNCHANGED <<s_task, s_left, s_file, tasks, aggVars, lockFrame>>

\* send_json of stop, return, close
LockSendStop(w) ==
    /\ spc[w] = "send_stop"
    /\ spc' = [spc EXCEPT ![w] = "closed"]
    /\ UNCHANGED <<s_task, s_left, s_file, tasks, aggVars, lock_owner, lockFrame>>

\* send_json of the task and send_binary_stream_from_file of its chunk
LockSendTask(w) ==
    /\ spc[w] = "send_task"
    /\ spc' = [spc EXCEPT ![w] = "recv_header"]
    /\ UNCHANGED <<s_task, s_left, s_file, tasks, aggVars, lock_owner, lockFrame>>

\* receive_results: the header, with the count the agent reports
LockRecvHeader(w) ==
    /\ spc[w] = "recv_header"
    /\ \E n \in 0..LockMaxFiles :
          /\ s_left' = [s_left EXCEPT ![w] = n]
          /\ spc' = [spc EXCEPT ![w] = IF n > 0 THEN "recv_meta" ELSE "recv_request"]
    /\ UNCHANGED <<s_task, s_file, tasks, aggVars, lock_owner, lockFrame>>

\* receive_results: the meta message of a file found at the start of the chunk
LockRecvMeta(w) ==
    /\ spc[w] = "recv_meta"
    /\ s_file' = [s_file EXCEPT ![w] = [offset |-> s_task[w].read_start, size |-> 0, h |-> << >>]]
    /\ spc' = [spc EXCEPT ![w] = "recv_bin"]
    /\ UNCHANGED <<s_task, s_left, tasks, aggVars, lock_owner, lockFrame>>

\* recv_binary_stream_to_file: the bytes the agent sends go to the temporary file
LockRecvBin(w) ==
    /\ spc[w] = "recv_bin"
    /\ \E data \in Templates :
          /\ tmp_files' = WriteFile(tmp_files, TmpName(w, s_task[w].task_id, s_file[w].offset), data)
          /\ s_file' = [s_file EXCEPT ![w] = [offset |-> @.offset, size |-> Len(data), h |-> << >>]]
    /\ spc' = [spc EXCEPT ![w] = "md5"]
    /\ UNCHANGED <<s_task, s_left, tasks, file_hashes, recovered_files, final_files,
                   lock_owner, lockFrame>>

\* the md5 of the temporary file
LockMd5(w) ==
    /\ spc[w] = "md5"
    /\ s_file' = [s_file EXCEPT ![w] =
           [offset |-> @.offset, size |-> @.size,
            h |-> Md5(tmp_files[TmpName(w, s_task[w].task_id, s_file[w].offset)])]]
    /\ spc' = [spc EXCEPT ![w] = "hash_enter"]
    /\ UNCHANGED <<s_task, s_left, tasks, aggVars, lock_owner, lockFrame>>

\* inside hash_lock: if h in self.file_hashes, else self.file_hashes.add(h)
LockHashTest(w) ==
    /\ spc[w] = "hash_test"
    /\ IF IsDuplicate(s_file[w].h, file_hashes)
       THEN /\ spc' = [spc EXCEPT ![w] = "dup_unlink"]
            /\ file_hashes' = file_hashes
       ELSE /\ spc' = [spc EXCEPT ![w] = "hash_exit"]
            /\ file_hashes' = file_hashes \cup {s_file[w].h}
    /\ UNCHANGED <<s_task, s_left, s_file, tasks, recovered_files, tmp_files, final_files,
                   lock_owner, lockFrame>>

\* the duplicate branch, still inside hash_lock: tmp_path.unlink
LockDupUnlink(w) ==
    /\ spc[w] = "dup_unlink"
    /\ tmp_files' = Unlink(tmp_files, TmpName(w, s_task[w].task_id, s_file[w].offset))
    /\ spc' = [spc EXCEPT ![w] = "dup_exit"]
    /\ UNCHANGED <<s_task, s_left, s_file, tasks, file_hashes, recovered_files, final_files,
                   lock_owner, lockFrame>>

\* continue leaves hash_lock and ends the iteration
LockDupExit(w) ==
    /\ spc[w] = "dup_exit"
    /\ lock_owner' = Released(lock_owner, "hash")
    /\ s_left' = [s_left EXCEPT ![w] = @ - 1]
    /\ spc' = [spc EXCEPT ![w] = AfterIteration(s_left[w] - 1)]
    /\ UNCHANGED <<s_task, s_file, tasks, aggVars, lockFrame>>

\* the end of the hash_lock block
LockHashExit(w) ==
    /\ spc[w] = "hash_exit"
    /\ lock_owner' = Released(lock_owner, "hash")
    /\ spc' = [spc EXCEPT ![w] = "replace"]
    /\ UNCHANGED <<s_task, s_left, s_file, tasks, aggVars, lockFrame>>

\* tmp_path.replace(final_path)
LockReplace(w) ==
    /\ spc[w] = "replace"
    /\ LET tmp_path == TmpName(w, s_task[w].task_id, s_file[w].offset)
       IN  /\ final_files' = WriteFile(final_files, FinalName(s_file[w].offset, s_file[w].h),
                                       tmp_files[tmp_path])
           /\ tmp_files' = Unlink(tmp_files, tmp_path)
    /\ spc' = [spc EXCEPT ![w] = "append_enter"]
    /\ UNCHANGED <<s_task, s_left, s_file, tasks, file_hashes, recovered_files,
                   lock_owner, lockFrame>>

\* inside recovered_lock: self.recovered_files.append
LockAppend(w) ==
    /\ spc[w] = "append"
    /\ recovered_files' = Append(recovered_files,
           [filename |-> FinalName(s_file[w].offset, s_file[w].h),
            size |-> s_file[w].size,
            offset |-> s_file[w].offset,
            hash |-> s_file[w].h,
            worker |-> w,
            task |-> s_task[w].task_id])
    /\ spc' = [spc EXCEPT ![w] = "append_exit"]
    /\ UNCHANGED <<s_task, s_left, s_file, tasks, file_hashes, tmp_files, final_files,
                   lock_owner, lockFrame>>

\* the end of the recovered_lock block and of the iteration
LockAppendExit(w) ==
    /\ spc[w] = "append_exit"
    /\ lock_owner' = Released(lock_owner, "recovered")
    /\ s_left' = [s_left EXCEPT ![w] = @ - 1]
    /\ spc' = [spc EXCEPT ![w] = AfterIteration(s_left[w] - 1)]
    /\ UNCHANGED <<s_task, s_file, tasks, aggVars, lockFrame>>

\* the queue is built and every agent is connected
InitLock ==
    /\ planted = {}
    /\ image = Zeros(RunImageSize)
    /\ image_size = Len(image)
    /\ \E cfg \in FailConfigs :
          /\ task_chunk_size = cfg[1]
          /\ overlap_size = cfg[2]
    /\ phase = "run"
    /\ tasks = BuildFrom(0, 0, image_size, task_chunk_size, overlap_size)
    /\ b_start = image_size
    /\ b_n = Len(tasks)
    /\ nworkers = MaxWorkers
    /\ spc = [w \in W |-> "recv_request"]
    /\ s_task = [w \in W |-> NoTask]
    /\ s_left = [w \in W |-> 0]
    /\ s_file = [w \in W |-> NoFile]
    /\ apc = [w \in W |-> "none"]
    /\ a_task = [w \in W |-> NoTask]
    /\ a_found = [w \in W |-> << >>]
    /\ toMaster = [w \in W |-> << >>]
    /\ toAgent = [w \in W |-> << >>]
    /\ file_hashes = {}
    /\ recovered_files = << >>
    /\ tmp_files = << >>
    /\ final_files = << >>
    /\ reported = {}
    /\ count_sum = 0
    /\ served = << >>
    /\ completed = {}
    /\ alive = [w \in W |-> TRUE]
    /\ failed = {}
    /\ lock_owner = [l \in Locks |-> -1]
    /\ log = [w \in W |-> << >>]
    /\ wire = [w \in W |-> << >>]
    /\ result_info = [w \in W |-> NoInfo]
    /\ pw_count = [w \in W |-> 0]
    /\ CarveIdle
    /\ RecvIdle

NextLock ==
    \/ \E w \in W : LockRecvRequest(w)
    \/ \E w \in W : LockEnter(w)
    \/ \E w \in W : LockPop(w)
    \/ \E w \in W : LockPopExit(w)
    \/ \E w \in W : LockSendStop(w)
    \/ \E w \in W : LockSendTask(w)
    \/ \E w \in W : LockRecvHeader(w)
    \/ \E w \in W : LockRecvMeta(w)
    \/ \E w \in W : LockRecvBin(w)
    \/ \E w \in W : LockMd5(w)
    \/ \E w \in W : LockHashTest(w)
    \/ \E w \in W : LockDupUnlink(w)
    \/ \E w \in W : LockDupExit(w)
    \/ \E w \in W : LockHashExit(w)
    \/ \E w \in W : LockReplace(w)
    \/ \E w \in W : LockAppend(w)
    \/ \E w \in W : LockAppendExit(w)

SpecLock == InitLock /\ [][NextLock]_vars

\* C21: no session is inside a lock while it reads or writes its socket, no
\* session is inside two locks, and no session waits for a lock while inside
\* one, so that no two sessions wait for each other
C21_NoLockAcrossSocket ==
    /\ \A w \in W :
          /\ OpKind(spc[w]) = "socket" => Held(w) = {}
          /\ Cardinality(Held(w)) <= 1
          /\ OpKind(spc[w]) = "acquire" => Held(w) = {}
    /\ ~ \E w, v \in W :
          /\ w # v
          /\ LockWanted(spc[w]) \in Held(v)
          /\ LockWanted(spc[v]) \in Held(w)

\* a session waits for hash_lock, which another session is inside of, while a
\* third lock operation has already been completed by both
C21_Witness ==
    \E w, v \in W :
        /\ w # v
        /\ LockWanted(spc[w]) = "hash"
        /\ "hash" \in Held(v)
        /\ s_task[w] # NoTask /\ s_task[v] # NoTask

\* C22: a session inside a lock performs only in-memory steps
C22_NoIoUnderLock ==
    \A w \in W : Held(w) # {} => OpKind(spc[w]) \in {"memory", "release"}

\* ------------------------------------------------------ fair scheduling
\* the steps of one session thread and of one agent process
SessionStep(w) ==
    \/ SessionServe(w)
    \/ SessionRecvHeader(w)
    \/ SessionRecvMeta(w)
    \/ SessionRecvBin(w)
    \/ SessionPersist(w)
    \/ SessionRecord(w)

AgentStep(w) ==
    \/ AgentRequest(w)
    \/ AgentRecvReply(w)
    \/ AgentRecvChunk(w)
    \/ AgentSendFile(w)

\* the main thread runs (build_tasks, the 30 s timeout of accept, join and
\* print_summary), every session thread is scheduled, and every agent process
\* that has not stalled goes on; connecting is left to the agents
Fairness ==
    /\ WF_vars(BuildTask)
    /\ WF_vars(BuildDone)
    /\ WF_vars(AcceptTimeout)
    /\ WF_vars(Summary)
    /\ \A w \in W : WF_vars(SessionStep(w))
    /\ \A w \in W : WF_vars(AgentStep(w))

\* the fair runs: one artifact in the image, two tasks whose read ranges overlap
LiveConfigs == {<<5, 2>>}

InitLive ==
    /\ planted \in {P \in Plantings(RunImageSize) :
                        \E p \in P : P = {p} /\ p.data = <<FF, D8, 1, FF, D9>>}
    /\ image = PlantedImage(planted, RunImageSize)
    /\ image_size = Len(image)
    /\ \E cfg \in LiveConfigs :
          /\ task_chunk_size = cfg[1]
          /\ overlap_size = cfg[2]
    /\ phase = "build"
    /\ b_start = 0
    /\ b_n = 0
    /\ tasks = << >>
    /\ RunIdle
    /\ CarveIdle
    /\ RecvIdle

\* the runs without failures under fair scheduling
SpecLive == InitLive /\ [][Next]_vars /\ Fairness

\* the state start_server ends in: the queue is empty, every built task was
\* popped exactly once, every count announced has been received and every file
\* sent is in the results directory or was discarded as a duplicate, every
\* session has sent stop and closed, every agent has left its loop, and
\* print_summary has run
RunCompleted ==
    /\ phase = "summary"
    /\ tasks = << >>
    /\ Len(served) = Len(BuiltTasks)
    /\ \A k \in 1..Len(BuiltTasks) :
          \E i \in ServedIndexes : served[i][1] = BuiltTasks[k].task_id
    /\ \A w \in W : w < nworkers =>
          /\ spc[w] = "closed"
          /\ apc[w] = "exit"
          /\ toMaster[w] = << >>
          /\ toAgent[w] = << >>
          /\ log[w] # << >> /\ log[w][Len(log[w])] = "stop"
    /\ \A r \in reported : \E n \in DOMAIN final_files : final_files[n] = r.data
    /\ DOMAIN tmp_files = {}

\* C24: once an agent is connected, a run in which every agent follows the
\* protocol and nothing fails reaches the completed state
C24_Termination == (phase = "accept" /\ nworkers >= 1) ~> RunCompleted

\* the completed state of a run with two agents that both served a task
C24_Witness ==
    /\ RunCompleted
    /\ nworkers = 2
    /\ \A w \in W : \E i \in 1..Len(served) : served[i][2] = w
    /\ final_files # << >>

\* ------------------------------------------------------ a stalled agent
\* an agent that was handed a task stops for ever, its connection stays open;
\* at most one agent stalls
AgentStall(w) ==
    /\ apc[w] \in {"recv_reply", "recv_chunk", "send_files"}
    /\ spc[w] \in {"recv_header", "recv_meta", "recv_bin", "persist", "record"}
    /\ \A v \in W : apc[v] # "stalled"
    /\ apc' = [apc EXCEPT ![w] = "stalled"]
    /\ UNCHANGED <<paramVars, phase, queueVars, nworkers, sessVars, a_task, a_found,
                   chanVars, aggVars, histVars, carveVars, failVars, recvVars, extVars>>

NextStall ==
    \/ Next
    \/ \E w \in W : AgentStall(w)

SpecStall == InitLive /\ [][NextStall]_vars /\ Fairness

\* the other sessions have emptied the queue, completed what they popped, sent
\* stop and closed, and their agents have left the loop
OthersDone(w) ==
    /\ tasks = << >>
    /\ \A v \in W \ {w} : v < nworkers =>
          /\ spc[v] = "closed"
          /\ apc[v] = "exit"
          /\ toMaster[v] = << >>
          /\ s_left[v] = 0
          /\ log[v] # << >> /\ log[v][Len(log[v])] = "stop"

\* C23: when an agent has stalled and there are other sessions, the others
\* empty the queue, complete their tasks, receive stop and terminate
C23_StalledAgentDoesNotBlock ==
    \A w \in W : (apc[w] = "stalled" /\ nworkers >= 2) ~> OthersDone(w)

\* an agent has stalled with a task, and the other session has taken a task
\* from the queue after that and has closed after stop
C23_Witness ==
    \E w, v \in W :
        /\ w # v
        /\ apc[w] = "stalled"
        /\ OthersDone(w)
        /\ \E i, j \in 1..Len(served) : i < j /\ served[i][2] = w /\ served[j][2] = v
        /\ phase = "run"

\* ---------------- FileCarvingMaster (file_carving_master.py): process_worker
\* the static scheduler: one task per connected worker, one process_worker call
\* per worker on a thread pool
StaticMaxFiles == 2

\* distribute_and_collect_parallel: end_offset of worker i of n, the last worker
\* taking the remainder; the variant gives every worker base bytes
StaticEndBaseOnly(i, n, base, size) == (i + 1) * base

StaticEnd(i, n, base, size) == IF i < n - 1 THEN (i + 1) * base ELSE size

\* distribute_and_collect_parallel: the task of worker i of n
StaticTask(i, n, size, overlap) ==
    LET base == size \div n
        start_offset == i * base
        end_offset == StaticEnd(i, n, base, size)
        read_start == IF i = 0 THEN 0 ELSE Max(0, start_offset - overlap \div 2)
        read_end == IF i = n - 1 THEN size ELSE Min(size, end_offset + overlap \div 2)
    IN  [task_id |-> i, start_offset |-> start_offset, end_offset |-> end_offset,
         read_start |-> read_start, read_end |-> read_end,
         chunk_size |-> read_end - read_start]

\* the first n files a worker finds in its chunk
StaticItems(n) ==
    [i \in 1..n |-> [offset |-> i, data |-> <<FF, D8, i, FF, D9>>, size |-> 5]]

\* process_worker returns result_info: success is set once receive_results has
\* returned its count, error when anything has raised
ReturnedCount(info, count) ==
    [success |-> TRUE, recovered_count |-> count, error |-> info.error]

Raised(info) == [success |-> info.success, recovered_count |-> info.recovered_count,
                 error |-> TRUE]

staticFrame == <<paramVars, phase, queueVars, nworkers, a_task, histVars, carveVars,
                 recvVars, lock_owner, log, wire>>

\* process_worker: send_json(task) and send_binary_stream_with_progress; sendall
\* raises on a connection the worker has dropped
StaticSendTask(w) ==
    /\ spc[w] = "send"
    /\ IF alive[w]
       THEN /\ toAgent' = [toAgent EXCEPT ![w] = @ \o TaskFrames(s_task[w], image)]
            /\ spc' = [spc EXCEPT ![w] = "recv_header"]
            /\ result_info' = result_info
       ELSE /\ toAgent' = toAgent
            /\ spc' = [spc EXCEPT ![w] = "returned"]
            /\ result_info' = [result_info EXCEPT ![w] = Raised(@)]
    /\ UNCHANGED <<s_task, s_left, s_file, apc, a_found, toMaster, aggVars, failVars,
                   pw_count, staticFrame>>

\* FileCarvingWorker.run_once: the task, the chunk, the carving, the count
StaticAgentResult(w) ==
    /\ apc[w] = "recv_task"
    /\ alive[w]
    /\ Len(toAgent[w]) >= 2
    /\ toAgent' = [toAgent EXCEPT ![w] = Tail(Tail(@))]
    /\ \E n \in 0..StaticMaxFiles :
          /\ a_found' = [a_found EXCEPT ![w] = StaticItems(n)]
          /\ toMaster' = [toMaster EXCEPT ![w] = Append(@,
                 JsonFrame([task_id |-> w, recovered_count |-> n]))]
          /\ apc' = [apc EXCEPT ![w] = IF n = 0 THEN "exit" ELSE "send_files"]
    /\ UNCHANGED <<sessVars, aggVars, failVars, result_info, pw_count, staticFrame>>

\* run_once: the meta message and the bytes of one file
StaticAgentSendFile(w) ==
    /\ apc[w] = "send_files"
    /\ alive[w]
    /\ LET item == Head(a_found[w])
       IN  toMaster' = [toMaster EXCEPT ![w] =
               @ \o <<JsonFrame([offset |-> item.offset, size |-> item.size]),
                      BinFrame(item.data)>>]
    /\ a_found' = [a_found EXCEPT ![w] = Tail(@)]
    /\ apc' = [apc EXCEPT ![w] = IF Tail(a_found[w]) = << >> THEN "exit" ELSE "send_files"]
    /\ UNCHANGED <<sessVars, toAgent, aggVars, failVars, result_info, pw_count, staticFrame>>

\* the worker dies, or drops the connection, before it has sent all its results
StaticAgentCrash(w) ==
    /\ alive[w]
    /\ apc[w] \in {"recv_task", "send_files"}
    /\ alive' = [alive EXCEPT ![w] = FALSE]
    /\ apc' = [apc EXCEPT ![w] = "dead"]
    /\ failed' = failed \cup {w}
    /\ UNCHANGED <<sessVars, a_found, chanVars, aggVars, result_info, pw_count, staticFrame>>

\* the worker dies inside the bytes of a file
StaticAgentCrashMidFile(w) ==
    /\ alive[w]
    /\ apc[w] = "send_files"
    /\ LET item == Head(a_found[w])
       IN  \E k \in 0..(item.size - 1) :
               toMaster' = [toMaster EXCEPT ![w] =
                   @ \o <<JsonFrame([offset |-> item.offset, size |-> item.size]),
                          CutBinFrame(item.data, k)>>]
    /\ alive' = [alive EXCEPT ![w] = FALSE]
    /\ apc' = [apc EXCEPT ![w] = "dead"]
    /\ failed' = failed \cup {w}
    /\ UNCHANGED <<sessVars, a_found, toAgent, aggVars, result_info, pw_count, staticFrame>>

\* receive_results: result = recv_json(sock), recovered_count
StaticRecvHeader(w) ==
    /\ spc[w] = "recv_header"
    /\ toMaster[w] # << >>
    /\ toMaster' = [toMaster EXCEPT ![w] = Tail(@)]
    /\ LET n == Head(toMaster[w]).msg.recovered_count
       IN  /\ pw_count' = [pw_count EXCEPT ![w] = n]
           /\ s_left' = [s_left EXCEPT ![w] = n]
           /\ IF n > 0
              THEN /\ spc' = [spc EXCEPT ![w] = "recv_meta"]
                   /\ result_info' = result_info
              ELSE /\ spc' = [spc EXCEPT ![w] = "returned"]
                   /\ result_info' = [result_info EXCEPT ![w] = ReturnedCount(@, n)]
    /\ UNCHANGED <<s_task, s_file, agentVars, toAgent, aggVars, failVars, staticFrame>>

\* receive_results: meta = recv_json(sock)
StaticRecvMeta(w) ==
    /\ spc[w] = "recv_meta"
    /\ toMaster[w] # << >>
    /\ toMaster' = [toMaster EXCEPT ![w] = Tail(@)]
    /\ s_file' = [s_file EXCEPT ![w] =
           [offset |-> Head(toMaster[w]).msg.offset, size |-> 0, h |-> << >>]]
    /\ spc' = [spc EXCEPT ![w] = "recv_bin"]
    /\ UNCHANGED <<s_task, s_left, agentVars, toAgent, aggVars, failVars, result_info,
                   pw_count, staticFrame>>

\* receive_results: the bytes of one file, its md5, and under self.lock the test,
\* the unlink of a duplicate or the add, the replace and the append; after the
\* last iteration receive_results returns recovered_count
StaticRecvBin(w) ==
    /\ spc[w] = "recv_bin"
    /\ toMaster[w] # << >>
    /\ Len(Head(toMaster[w]).data) = Head(toMaster[w]).total
    /\ toMaster' = [toMaster EXCEPT ![w] = Tail(@)]
    /\ LET data == RecvBinary(Head(toMaster[w]))
           h == Md5(data)
           final_name == FinalName(s_file[w].offset, h)
       IN  IF IsDuplicate(h, file_hashes)
           THEN UNCHANGED <<file_hashes, final_files, recovered_files>>
           ELSE /\ file_hashes' = file_hashes \cup {h}
                /\ final_files' = WriteFile(final_files, final_name, data)
                /\ recovered_files' = Append(recovered_files,
                       [filename |-> final_name, size |-> Len(data),
                        offset |-> s_file[w].offset, hash |-> h, worker_id |-> w])
    /\ s_left' = [s_left EXCEPT ![w] = @ - 1]
    /\ IF s_left[w] - 1 > 0
       THEN /\ spc' = [spc EXCEPT ![w] = "recv_meta"]
            /\ result_info' = result_info
       ELSE /\ spc' = [spc EXCEPT ![w] = "returned"]
            /\ result_info' = [result_info EXCEPT ![w] = ReturnedCount(@, pw_count[w])]
    /\ UNCHANGED <<s_task, s_file, agentVars, toAgent, tmp_files, failVars, pw_count,
                   staticFrame>>

\* recv_binary_stream_to_file on a cut bulk frame raises IOError, which
\* process_worker catches: result_info["error"] is set, success stays False
StaticTruncated(w) ==
    /\ spc[w] = "recv_bin"
    /\ toMaster[w] # << >>
    /\ Len(Head(toMaster[w]).data) < Head(toMaster[w]).total
    /\ toMaster' = [toMaster EXCEPT ![w] = Tail(@)]
    /\ tmp_files' = WriteFile(tmp_files, <<w, s_file[w].offset>>, Head(toMaster[w]).data)
    /\ spc' = [spc EXCEPT ![w] = "returned"]
    /\ result_info' = [result_info EXCEPT ![w] = Raised(@)]
    /\ UNCHANGED <<s_task, s_left, s_file, agentVars, toAgent, file_hashes, recovered_files,
                   final_files, failVars, pw_count, staticFrame>>

\* what receive_results returns when a read finds the connection closed with
\* nothing left to read: 0 if the result message is missing (if not result:
\* return 0), else recovered_count (if not meta: break; a file of -1 bytes is
\* skipped and the next meta is missing)
CountAtEof(pc, count) == IF pc = "recv_header" THEN 0 ELSE count

StaticEof(w) ==
    /\ spc[w] \in {"recv_header", "recv_meta", "recv_bin"}
    /\ toMaster[w] = << >>
    /\ ~alive[w]
    /\ spc' = [spc EXCEPT ![w] = "returned"]
    /\ result_info' = [result_info EXCEPT ![w] =
           ReturnedCount(@, CountAtEof(spc[w], pw_count[w]))]
    /\ UNCHANGED <<s_task, s_left, s_file, agentVars, chanVars, aggVars, failVars,
                   pw_count, staticFrame>>

\* every worker is connected and distribute_and_collect_parallel has submitted
\* one process_worker call for each
InitStatic ==
    /\ planted = {}
    /\ image = Zeros(RunImageSize)
    /\ image_size = Len(image)
    /\ task_chunk_size = 1
    /\ overlap_size \in {0, 4}
    /\ phase = "static"
    /\ b_start = 0 /\ b_n = 0 /\ tasks = << >>
    /\ nworkers = MaxWorkers
    /\ spc = [w \in W |-> "send"]
    /\ s_task = [w \in W |-> StaticTask(w, MaxWorkers, image_size, overlap_size)]
    /\ s_left = [w \in W |-> 0]
    /\ s_file = [w \in W |-> NoFile]
    /\ apc = [w \in W |-> "recv_task"]
    /\ a_task = [w \in W |-> NoTask]
    /\ a_found = [w \in W |-> << >>]
    /\ toMaster = [w \in W |-> << >>]
    /\ toAgent = [w \in W |-> << >>]
    /\ file_hashes = {}
    /\ recovered_files = << >>
    /\ tmp_files = << >>
    /\ final_files = << >>
    /\ reported = {}
    /\ count_sum = 0
    /\ served = << >>
    /\ completed = {}
    /\ alive = [w \in W |-> TRUE]
    /\ failed = {}
    /\ lock_owner = [l \in Locks |-> -1]
    /\ log = [w \in W |-> << >>]
    /\ wire = [w \in W |-> << >>]
    /\ result_info = [w \in W |-> NoInfo]
    /\ pw_count = [w \in W |-> 0]
    /\ CarveIdle
    /\ RecvIdle

NextStatic ==
    \/ \E w \in W : StaticSendTask(w)
    \/ \E w \in W : StaticAgentResult(w)
    \/ \E w \in W : StaticAgentSendFile(w)
    \/ \E w \in W : StaticAgentCrash(w)
    \/ \E w \in W : StaticAgentCrashMidFile(w)
    \/ \E w \in W : StaticRecvHeader(w)
    \/ \E w \in W : StaticRecvMeta(w)
    \/ \E w \in W : StaticRecvBin(w)
    \/ \E w \in W : StaticTruncated(w)
    \/ \E w \in W : StaticEof(w)

SpecStatic == InitStatic /\ [][NextStatic]_vars

\* C25: a session whose agent disconnected before all its results were received
\* ends with an error recorded for its worker and is not reported as a success,
\* and no error is recorded for the others
C25_FailureReported ==
    \A w \in W : spc[w] = "returned" =>
        IF w \in failed
        THEN result_info[w].error /\ ~result_info[w].success
        ELSE ~result_info[w].error /\ result_info[w].success

\* what holds in the static scheduler: a worker that did not disconnect is
\* reported as a success with the count it announced and no error, an error is
\* recorded only for a worker that disconnected, and a call that raised is not
\* reported as a success
StaticReportsOfLiveWorkers ==
    \A w \in W : spc[w] = "returned" =>
        /\ w \notin failed => (result_info[w].success /\ ~result_info[w].error
                               /\ result_info[w].recovered_count = pw_count[w])
        /\ result_info[w].error => (w \in failed /\ ~result_info[w].success)

\* what holds in the pull-based master: a session that ended otherwise than by
\* stop has printed an error line of its own after its last result line, a
\* session that ended by stop has printed none, and a result line is printed
\* only for a header that was received
ErrorLines == {"header error", "closed (recv failed)", "error", "unexpected msg"}

SessionFailureLogged ==
    \A w \in W : spc[w] = "closed" =>
        /\ w \in failed <=> \E i \in 1..Len(log[w]) : log[w][i] \in ErrorLines
        /\ w \in failed => log[w][Len(log[w])] \in ErrorLines
        /\ w \notin failed => log[w][Len(log[w])] = "stop"

\* ================================================== carve_jpeg_from_file
\* what one scan of the whole chunk as a single buffer reports
WholeScan == ScanBuf(c_chunk, 0, 0, c_base)

\* the block-wise scan has reported item, at its offset and with its bytes
Reported(item) ==
    \E i \in 1..Len(c_found) :
        c_found[i].offset = item.offset /\ c_found[i].data = item.data

\* the chunk positions where one block ends and the next begins
BlockBoundaries == {p \in 1..(Len(c_chunk) - 1) : p % c_scan_block = 0}

BufLimit == IF c_tail_keep = 0 THEN Len(c_chunk) ELSE c_tail_keep + c_scan_block

C28_Delimited ==
    \A i \in 1..Len(c_found) :
        LET d == c_found[i].data
        IN  /\ Len(d) >= 4
            /\ c_found[i].size = Len(d)
            /\ d[1] = FF /\ d[2] = D8
            /\ d[Len(d) - 1] = FF /\ d[Len(d)] = D9
            /\ \A k \in 3..(Len(d) - 2) : ~(d[k] = FF /\ d[k + 1] = D9)

\* an artifact with a byte between its markers has been emitted, that byte
\* being FF, the first half of a marker
C28_Witness ==
    /\ c_pc = "done"
    /\ \E i \in 1..Len(c_found) :
          c_found[i].size = 5 /\ c_found[i].data[3] = FF

\* the least length verify_results accepts
MinValidSize == 20

\* C29: no emitted artifact is shorter than the minimum
C29_MinimumSize ==
    \A i \in 1..Len(c_found) : c_found[i].size >= MinValidSize

\* ===================================================== the task exchange
\* where a connection stands in the exchange: st is the frame expected next,
\* left the (meta, bulk) pairs still owed, task the task being served
ExchangeStart == [st |-> "request", left |-> 0, task |-> NoTask]
ExchangeBad == [st |-> "bad", left |-> 0, task |-> NoTask]

\* the exchange after one more frame f written by end
ExchangeStep(x, end, f, img) ==
    CASE x.st = "request" ->
            IF end = "agent" /\ f.framing = "json" /\ f.msg.type = "request_task"
            THEN [x EXCEPT !.st = "reply"] ELSE ExchangeBad
      [] x.st = "reply" ->
            IF end = "master" /\ f.framing = "json" /\ f.msg.type = "stop"
            THEN [x EXCEPT !.st = "end"]
            ELSE IF end = "master" /\ f.framing = "json" /\ f.msg.type = "task"
            THEN [x EXCEPT !.st = "chunk", !.task = f.msg.task]
            ELSE ExchangeBad
      [] x.st = "chunk" ->
            IF /\ end = "master" /\ f.framing = "bin"
               /\ f.total = x.task.read_end - x.task.read_start
               /\ f.data = Slice(img, x.task.read_start, x.task.read_end)
            THEN [x EXCEPT !.st = "result"] ELSE ExchangeBad
      [] x.st = "result" ->
            IF /\ end = "agent" /\ f.framing = "json" /\ f.msg.type = "result"
               /\ f.msg.recovered_count >= 0
            THEN [x EXCEPT !.st = IF f.msg.recovered_count > 0 THEN "meta" ELSE "request",
                           !.left = f.msg.recovered_count]
            ELSE ExchangeBad
      [] x.st = "meta" ->
            IF end = "agent" /\ f.framing = "json" /\ f.msg.type = "file"
            THEN [x EXCEPT !.st = "bulk"] ELSE ExchangeBad
      [] x.st = "bulk" ->
            IF end = "agent" /\ f.framing = "bin"
            THEN [x EXCEPT !.st = IF x.left > 1 THEN "meta" ELSE "request",
                           !.left = x.left - 1]
            ELSE ExchangeBad
      [] OTHER -> ExchangeBad

\* the exchange after the first k frames of a connection's history
RECURSIVE ExchangeAfter(_, _, _)
ExchangeAfter(hist, k, img) ==
    IF k = 0 THEN ExchangeStart
    ELSE ExchangeStep(ExchangeAfter(hist, k - 1, img), hist[k].from, hist[k].frame, img)

\* the positions of receive_results inside the for loop
InPairLoop == {"recv_meta", "recv_bin", "persist", "record"}

\* C30: on every connection the frames follow the order request, task message,
\* bulk frame of [read_start, read_end), result message, then exactly
\* recovered_count (meta, bulk) pairs; and a session is back at reading a
\* request only when no pair of the announced count is left to read
C30_ExchangeOrder ==
    \A w \in W :
        /\ ExchangeAfter(wire[w], Len(wire[w]), image).st # "bad"
        /\ spc[w] = "recv_request" => s_left[w] = 0
        /\ spc[w] \in InPairLoop => s_left[w] >= 1

\* a connection has carried a whole exchange with at least one pair, the session
\* has read the request that follows it and has answered
C30_Witness ==
    \E w \in W : \E k \in 1..Len(wire[w]) :
        /\ ExchangeAfter(wire[w], k - 1, image).st = "result"
        /\ wire[w][k].frame.msg.recovered_count >= 1
        /\ LET n == k + 2 * wire[w][k].frame.msg.recovered_count
           IN  /\ Len(wire[w]) >= n + 2
               /\ ExchangeAfter(wire[w], n + 1, image).st = "reply"
               /\ wire[w][n + 2].from = "master"
        /\ toMaster[w] = << >>

\* =============================================== unexpected message types
\* a control message whose type is none of those the peers use
OtherFrame == JsonFrame([type |-> "other"])

\* a peer that is not FileCarvingWorkerParallel writes a control message of
\* another type where the session expects a request
PeerSendsOther(w) ==
    /\ phase = "run"
    /\ apc[w] = "request"
    /\ toMaster' = [toMaster EXCEPT ![w] = Append(@, OtherFrame)]
    /\ wire' = WireSend(wire, w, "agent", <<OtherFrame>>)
    /\ apc' = [apc EXCEPT ![w] = "recv_reply"]
    /\ UNCHANGED <<paramVars, phase, queueVars, nworkers, sessVars, a_task, a_found,
                   toAgent, aggVars, histVars, carveVars, failVars, recvVars,
                   lock_owner, log, result_info, pw_count>>

\* a peer that is not FileCarvingMasterParallel reads the request of the agent
\* and answers with a control message of another type
PeerRepliesOther(w) ==
    /\ spc[w] = "recv_request"
    /\ toMaster[w] # << >>
    /\ Head(toMaster[w]).framing = "json"
    /\ Head(toMaster[w]).msg.type = "request_task"
    /\ toMaster' = [toMaster EXCEPT ![w] = Tail(@)]
    /\ toAgent' = [toAgent EXCEPT ![w] = Append(@, OtherFrame)]
    /\ wire' = WireSend(wire, w, "master", <<OtherFrame>>)
    /\ spc' = [spc EXCEPT ![w] = "closed"]
    /\ UNCHANGED <<paramVars, phase, queueVars, nworkers, s_task, s_left, s_file,
                   agentVars, aggVars, histVars, carveVars, failVars, recvVars,
                   lock_owner, log, result_info, pw_count>>

NextProto ==
    \/ Next
    \/ \E w \in W : PeerSendsOther(w)
    \/ \E w \in W : PeerRepliesOther(w)

SpecProto == InitFail /\ [][NextProto]_vars

\* the session of w has a control message of another type to read as a request
OtherAtSession(w) ==
    /\ spc[w] = "recv_request"
    /\ toMaster[w] # << >>
    /\ Head(toMaster[w]).framing = "json"
    /\ Head(toMaster[w]).msg.type # "request_task"

\* the agent of w has a reply to read that is neither task nor stop
OtherAtAgent(w) ==
    /\ apc[w] = "recv_reply"
    /\ toAgent[w] # << >>
    /\ Head(toAgent[w]).framing = "json"
    /\ Head(toAgent[w]).msg.type \notin {"task", "stop"}

\* the frames the agent end of connection w has written
SentByAgent(w) == SelectSeq(wire[w], LAMBDA x : x.from = "agent")

\* C31: a session that reads a message of another type as a request ends closed,
\* with the queue, the dedup set, the result list and its outgoing frames as
\* they were; an agent that reads a reply of another type exits and writes
\* nothing from then on
C31_UnexpectedType ==
    [][\A w \in W :
          /\ (OtherAtSession(w) /\ spc'[w] # spc[w]) =>
                /\ spc'[w] = "closed"
                /\ tasks' = tasks
                /\ served' = served
                /\ file_hashes' = file_hashes
                /\ recovered_files' = recovered_files
                /\ toAgent'[w] = toAgent[w]
          /\ (OtherAtAgent(w) /\ apc'[w] # apc[w]) =>
                /\ apc'[w] = "exit"
                /\ SentByAgent(w)' = SentByAgent(w)
          /\ apc[w] = "exit" => (apc'[w] = "exit" /\ SentByAgent(w)' = SentByAgent(w))]_vars

\* one session has closed on a message of another type with tasks still queued,
\* and one agent has exited on a reply of another type
C31_Witness ==
    /\ tasks # << >>
    /\ \E w \in W :
          /\ spc[w] = "closed"
          /\ \E i \in 1..Len(log[w]) : log[w][i] = "unexpected msg"
    /\ \E v \in W :
          /\ apc[v] = "exit"
          /\ wire[v] # << >>
          /\ wire[v][Len(wire[v])] = [from |-> "master", frame |-> OtherFrame]

\* ======================================================== the scan step
\* the buffer the block loop scans next, and the chunk position of its first byte
NextBuf == c_carry \o Slice(c_chunk, c_pos, c_pos + c_scan_block)

\* pat begins at position s of buf (positions from 0)
MarkerAt(buf, pat, s) == s >= 0 /\ s + 2 <= Len(buf) /\ Slice(buf, s, s + 2) = pat

\* buf has an end marker at or after position s + 2
EndMarkerFrom(buf, s) == \E e \in (s + 2)..(Len(buf) - 2) : MarkerAt(buf, EOI, e)

\* C32: what one block adds to found comes out of the buffer of that block alone:
\* each candidate is a span [s, e + 2) of the buffer from a start marker to the
\* first end marker at or after s + 2; a start marker with no such end marker
\* starts no candidate; a start marker with one either starts a candidate or
\* lies inside an earlier one; and the candidates of one buffer do not overlap
C32_ScanStep ==
    [][(c_pc = "scan" /\ c_pos' # c_pos) =>
          LET buf == NextBuf
              new == SubSeq(c_found', Len(c_found) + 1, Len(c_found'))
              rel(k) == new[k].offset - c_base - c_carry_pos
          IN  /\ \A k \in 1..Len(new) :
                    /\ MarkerAt(buf, SOI, rel(k))
                    /\ new[k].size >= 4
                    /\ MarkerAt(buf, EOI, rel(k) + new[k].size - 2)
                    /\ \A e \in (rel(k) + 2)..(rel(k) + new[k].size - 3) : ~MarkerAt(buf, EOI, e)
                    /\ new[k].data = Slice(buf, rel(k), rel(k) + new[k].size)
              /\ \A k \in 1..(Len(new) - 1) : rel(k + 1) >= rel(k) + new[k].size
              /\ \A s \in 0..(Len(buf) - 2) :
                    MarkerAt(buf, SOI, s) =>
                        IF EndMarkerFrom(buf, s)
                        THEN \E k \in 1..Len(new) : rel(k) <= s /\ s < rel(k) + new[k].size
                        ELSE \A k \in 1..Len(new) : rel(k) # s]_vars

\* a start marker of the first block had no end marker in that block and was
\* abandoned there; the next buffer holds the candidate whole, with a second
\* start marker inside it, and the candidate has been written once
C32_Witness ==
    /\ c_pc = "done"
    /\ Len(c_found) = 1
    /\ LET s == c_found[1].offset - c_base
       IN  /\ s + 2 <= c_scan_block
           /\ s + c_found[1].size > c_scan_block
           /\ \E t \in 2..(c_found[1].size - 4) : MarkerAt(c_found[1].data, SOI, t)

\* ============================================================ service order
\* C33: the task ids handed out, in the order of the pops, are 0, 1, 2, ...: the
\* i-th pop of the run returns the i-th task pushed by build_tasks, and what is
\* left in the queue are the tasks pushed after it, in push order
C33_FifoOrder ==
    phase \in {"accept", "run", "summary"} =>
        /\ Len(served) <= Len(BuiltTasks)
        /\ \A i \in ServedIndexes :
              served[i][1] = BuiltTasks[i].task_id /\ served[i][1] = i - 1
        /\ tasks = SubSeq(BuiltTasks, Len(served) + 1, Len(BuiltTasks))

\* three tasks have been handed out, not all by the same session
C33_Witness ==
    /\ Len(served) >= 3
    /\ \E i, j \in ServedIndexes : served[i][2] # served[j][2]
    /\ served[1][2] # served[2][2]

\* ========================================= a bulk frame, sender to receiver
MaxSource == 3
MaxStreamBlock == 2

\* the most one sock.recv call asks for
RecvMax == 65536

\* the argument of sock.recv in the payload loop: min(65536, remaining); the
\* variant asks for a whole buffer whatever remains
RecvWantedWholeBuffer(remaining) == RecvMax

RecvWanted(remaining) == Min(RecvMax, remaining)

\* the bytes written to the socket and not yet returned by a recv call
Available == Len(sock_stream) - sock_pos

\* what the peer writes after the bulk frame: the next control frame
NextFrameBytes == JsonBytes(<<1>>)

senderFrame == <<sb_source, sb_start, sb_end, stream_block_size>>
receiverVars == <<sock_pos, rb_pc, rb_buf, rb_total, rb_remaining, rb_sink, rb_ret>>
bulkRest == <<paramVars, phase, queueVars, runVars, carveVars, failVars, extVars,
              r_frame, r_stream, r_pc, r_total, r_out, r_ret>>

\* send_binary_stream_from_file: the range test and the length prefix
BulkSendPrefix ==
    /\ sb_pc = "prefix"
    /\ LET total == sb_end - sb_start
       IN  IF total < 0
           THEN /\ sb_pc' = "raised"
                /\ UNCHANGED <<sock_stream, sb_remaining>>
           ELSE /\ sock_stream' = sock_stream \o Pack(total, BIN_LEN_SIZE)
                /\ sb_remaining' = total
                /\ sb_pc' = "blocks"
    /\ UNCHANGED <<senderFrame, receiverVars, bulkRest>>

\* one iteration of its while loop: file_obj.read(to_read) and sendall
BulkSendBlock ==
    /\ sb_pc = "blocks"
    /\ sb_remaining > 0
    /\ LET to_read == Min(stream_block_size, sb_remaining)
           at == sb_start + ((sb_end - sb_start) - sb_remaining)
           data == Slice(sb_source, at, at + to_read)
       IN  IF data = << >>
           THEN /\ sb_pc' = "raised"
                /\ UNCHANGED <<sock_stream, sb_remaining>>
           ELSE /\ sock_stream' = sock_stream \o data
                /\ sb_remaining' = sb_remaining - Len(data)
                /\ sb_pc' = sb_pc
    /\ UNCHANGED <<senderFrame, receiverVars, bulkRest>>

\* the loop ends and the function returns
BulkSendReturn ==
    /\ sb_pc = "blocks"
    /\ sb_remaining = 0
    /\ sb_pc' = "returned"
    /\ UNCHANGED <<senderFrame, sb_remaining, sock_stream, receiverVars, bulkRest>>

\* the sender goes on with its next frame
BulkSendNext ==
    /\ sb_pc = "returned"
    /\ sock_stream' = sock_stream \o NextFrameBytes
    /\ sb_pc' = "next"
    /\ UNCHANGED <<senderFrame, sb_remaining, receiverVars, bulkRest>>

\* recv_binary_stream_to_file, _recv_exact(BIN_LEN_SIZE): one sock.recv, which
\* returns between one byte and what was asked for; with the prefix complete,
\* total is unpacked and out_path is opened
BulkRecvSize ==
    /\ rb_pc = "size"
    /\ Available > 0
    /\ \E k \in 1..Min(Min(RecvMax, BIN_LEN_SIZE - Len(rb_buf)), Available) :
          LET buf == rb_buf \o Slice(sock_stream, sock_pos, sock_pos + k)
          IN  /\ rb_buf' = buf
              /\ sock_pos' = sock_pos + k
              /\ IF Len(buf) < BIN_LEN_SIZE
                 THEN UNCHANGED <<rb_pc, rb_total, rb_remaining>>
                 ELSE /\ rb_total' = Unpack(buf)
                      /\ rb_remaining' = Unpack(buf)
                      /\ rb_pc' = "payload"
    /\ UNCHANGED <<senderFrame, sb_pc, sb_remaining, sock_stream, rb_sink, rb_ret, bulkRest>>

\* one iteration of the payload loop: sock.recv and f.write
BulkRecvChunk ==
    /\ rb_pc = "payload"
    /\ rb_remaining > 0
    /\ Available > 0
    /\ \E k \in 1..Min(RecvWanted(rb_remaining), Available) :
          /\ rb_sink' = rb_sink \o Slice(sock_stream, sock_pos, sock_pos + k)
          /\ sock_pos' = sock_pos + k
          /\ rb_remaining' = rb_remaining - k
    /\ UNCHANGED <<senderFrame, sb_pc, sb_remaining, sock_stream, rb_pc, rb_buf, rb_total,
                   rb_ret, bulkRest>>

\* the loop ends: return total
BulkRecvReturn ==
    /\ rb_pc = "payload"
    /\ ~(rb_remaining > 0)
    /\ rb_pc' = "returned"
    /\ rb_ret' = rb_total
    /\ UNCHANGED <<senderFrame, sb_pc, sb_remaining, sock_stream, sock_pos, rb_buf, rb_total,
                   rb_remaining, rb_sink, bulkRest>>

InitBulk ==
    /\ image = << >> /\ image_size = 0 /\ task_chunk_size = 1 /\ overlap_size = 0
    /\ phase = "bulk" /\ b_start = 0 /\ b_n = 0 /\ tasks = << >>
    /\ planted = {}
    /\ RunIdle
    /\ CarveIdle
    /\ r_frame = << >> /\ r_stream = << >> /\ r_pc = "idle"
    /\ r_total = 0 /\ r_out = << >> /\ r_ret = "idle"
    /\ sb_source \in SeqsUpTo(PayloadBytes, MaxSource)
    /\ sb_start \in 0..Len(sb_source)
    /\ sb_end \in 0..(Len(sb_source) + 1)
    /\ stream_block_size \in 1..MaxStreamBlock
    /\ sb_pc = "prefix" /\ sb_remaining = 0 /\ sock_stream = << >> /\ sock_pos = 0
    /\ rb_pc = "size" /\ rb_buf = << >> /\ rb_total = 0 /\ rb_remaining = 0
    /\ rb_sink = << >> /\ rb_ret = "pending"

NextBulk ==
    \/ BulkSendPrefix
    \/ BulkSendBlock
    \/ BulkSendReturn
    \/ BulkSendNext
    \/ BulkRecvSize
    \/ BulkRecvChunk
    \/ BulkRecvReturn

SpecBulk == InitBulk /\ [][NextBulk]_vars

\* C34: whatever the socket reads return, a receive that returns has written
\* source[start:end] to the sink, returns the length end - start that the prefix
\* declares, and has taken 8 + (end - start) bytes from the stream; at no time
\* has it taken more, whatever follows the frame in the stream
C34_BulkRoundTrip ==
    /\ sock_pos <= BIN_LEN_SIZE + Max(sb_end - sb_start, 0)
    /\ rb_pc = "returned" =>
          /\ sb_start <= sb_end
          /\ rb_sink = Slice(sb_source, sb_start, sb_end)
          /\ rb_ret = sb_end - sb_start
          /\ rb_total = sb_end - sb_start
          /\ sock_pos = BIN_LEN_SIZE + (sb_end - sb_start)

\* a frame of three bytes was sent in two blocks and read in more than one
\* recv, the receive has returned, and the next frame is waiting in the stream
C34_Witness ==
    /\ rb_pc = "returned"
    /\ sb_end - sb_start = 3
    /\ stream_block_size = 2
    /\ sb_pc = "next"
    /\ Available = Len(NextFrameBytes)

\* ===================================== the static scheduler: distribution
StaticOverlaps == {0, 2, 4}

\* distribute_and_collect_parallel: one iteration of for i, w in enumerate(self.workers)
StaticBuildTask ==
    /\ phase = "static_build"
    /\ b_n < nworkers
    /\ tasks' = Append(tasks, StaticTask(b_n, nworkers, image_size, overlap_size))
    /\ b_n' = b_n + 1
    /\ UNCHANGED <<paramVars, phase, b_start, runVars, carveVars, failVars, recvVars, extVars>>

\* the tasks_args built, executor.submit(self.process_worker, *args) for each
StaticSubmit ==
    /\ phase = "static_build"
    /\ ~(b_n < nworkers)
    /\ phase' = "static"
    /\ spc' = [w \in W |-> IF w < Len(tasks) THEN "send" ELSE "none"]
    /\ s_task' = [w \in W |-> IF w < Len(tasks) THEN tasks[w + 1] ELSE NoTask]
    /\ UNCHANGED <<paramVars, queueVars, nworkers, s_left, s_file, agentVars, chanVars,
                   aggVars, histVars, carveVars, failVars, recvVars, extVars>>

InitStaticBuild ==
    /\ planted = {}
    /\ image \in {Zeros(size) : size \in 0..MaxImageSize}
    /\ image_size = Len(image)
    /\ task_chunk_size = 1
    /\ overlap_size \in StaticOverlaps
    /\ phase = "static_build"
    /\ b_start = 0 /\ b_n = 0 /\ tasks = << >>
    /\ nworkers \in 1..MaxWorkers
    /\ spc = [w \in W |-> "none"]
    /\ s_task = [w \in W |-> NoTask]
    /\ s_left = [w \in W |-> 0]
    /\ s_file = [w \in W |-> NoFile]
    /\ apc = [w \in W |-> "recv_task"]
    /\ a_task = [w \in W |-> NoTask]
    /\ a_found = [w \in W |-> << >>]
    /\ toMaster = [w \in W |-> << >>]
    /\ toAgent = [w \in W |-> << >>]
    /\ file_hashes = {}
    /\ recovered_files = << >>
    /\ tmp_files = << >>
    /\ final_files = << >>
    /\ reported = {}
    /\ count_sum = 0
    /\ served = << >>
    /\ completed = {}
    /\ alive = [w \in W |-> TRUE]
    /\ failed = {}
    /\ lock_owner = [l \in Locks |-> -1]
    /\ log = [w \in W |-> << >>]
    /\ wire = [w \in W |-> << >>]
    /\ result_info = [w \in W |-> NoInfo]
    /\ pw_count = [w \in W |-> 0]
    /\ CarveIdle
    /\ RecvIdle

NextStaticBuild ==
    \/ StaticBuildTask
    \/ StaticSubmit
    \/ \E w \in W : StaticSendTask(w)

SpecStaticBuild == InitStaticBuild /\ [][NextStaticBuild]_vars

\* the task messages written to worker w
TaskMessagesTo(w) ==
    SelectSeq(toAgent[w], LAMBDA f : f.framing = "json" /\ f.msg.type = "task")

\* C35: the loop builds one task per connected worker, task i for worker i; the
\* ownership ranges are [i*base, (i+1)*base) and, for the last, [(n-1)*base, N),
\* and every offset of [0, N) lies in exactly one of them; worker w is sent task
\* w and no other
C35_StaticPartition ==
    /\ (phase = "static" \/ (phase = "static_build" /\ b_n = nworkers)) =>
          LET n == nworkers
              N == image_size
              base == N \div n
          IN  /\ n >= 1
              /\ Len(tasks) = n
              /\ \A i \in 0..(n - 1) :
                    /\ tasks[i + 1].task_id = i
                    /\ tasks[i + 1].start_offset = i * base
                    /\ tasks[i + 1].end_offset = (IF i < n - 1 THEN (i + 1) * base ELSE N)
                    /\ tasks[i + 1].start_offset <= tasks[i + 1].end_offset
              /\ \A x \in 0..(N - 1) :
                    \E i \in 0..(n - 1) :
                        /\ Owns(tasks[i + 1], x)
                        /\ \A j \in 0..(n - 1) : Owns(tasks[j + 1], x) => j = i
              /\ \A i \in 0..(n - 1) :
                    \A x \in tasks[i + 1].start_offset..(tasks[i + 1].end_offset - 1) :
                        0 <= x /\ x < N
    /\ phase = "static" =>
          \A w \in W :
              /\ Len(TaskMessagesTo(w)) <= 1
              /\ \A k \in 1..Len(TaskMessagesTo(w)) :
                    /\ w < nworkers
                    /\ TaskMessagesTo(w)[k].msg.task = tasks[w + 1]
                    /\ TaskMessagesTo(w)[k].msg.task.task_id = w

\* two workers on an image of odd size: the last worker owns the remainder, and
\* each worker has been sent its task
C35_Witness ==
    /\ phase = "static"
    /\ nworkers = 2
    /\ image_size = 11
    /\ tasks[2].end_offset - tasks[2].start_offset = 6
    /\ \A w \in W : Len(TaskMessagesTo(w)) = 1

\* an image smaller than the number of workers has been distributed: the first
\* worker owns nothing
StaticImageSmallerThanWorkers ==
    /\ phase = "static" /\ nworkers = 2 /\ image_size = 1
    /\ tasks[1].end_offset = 0 /\ tasks[2].end_offset = 1

\* ======================================================== task conservation
\* the positions of a session between the pop of a task and its last result
ServingPcs == {"recv_header"} \cup InPairLoop

BuiltIds == {BuiltTasks[k].task_id : k \in 1..Len(BuiltTasks)}

QueuedIds == {tasks[k].task_id : k \in TaskIndexes}

\* the sessions serving task k
InFlightAt(k) == {w \in W : s_task[w].task_id = k /\ spc[w] \in ServingPcs}

InFlightIds == {k \in BuiltIds : InFlightAt(k) # {}}

CompletedIds == BuiltIds \cap completed

\* the tasks of sessions that ended between the pop and the last result
LostIds == {k \in BuiltIds \ completed :
               \E w \in W : s_task[w].task_id = k /\ spc[w] = "closed"}

\* C36: a session serves at most one task at a time, and every built task is in
\* exactly one of: queued, in flight at exactly one session, completed, lost
C36_TaskConservation ==
    phase \in {"accept", "run", "summary"} =>
        LET built == BuiltIds
            queued == QueuedIds
            flying == {k \in built : \E w \in W : s_task[w].task_id = k /\ spc[w] \in ServingPcs}
            done == built \cap completed
            lost == {k \in built \ completed :
                        \E w \in W : s_task[w].task_id = k /\ spc[w] = "closed"}
        IN  /\ \A w, v \in W :
                  (w # v /\ spc[w] \in ServingPcs /\ spc[v] \in ServingPcs)
                      => s_task[w].task_id # s_task[v].task_id
            /\ \A w \in W : spc[w] \in ServingPcs => s_task[w].task_id \in built
            /\ queued \cup flying \cup done \cup lost = built
            /\ queued \cap flying = {} /\ queued \cap done = {} /\ queued \cap lost = {}
            /\ flying \cap done = {} /\ flying \cap lost = {} /\ done \cap lost = {}
            /\ Len(tasks) = Cardinality(queued)
            /\ Cardinality(queued) + Cardinality(flying) + Cardinality(done)
                  + Cardinality(lost) = Len(BuiltTasks)

\* three tasks built: one is completed, one was lost with its session, and one
\* is in flight at the other session
C36_Witness ==
    /\ phase = "run"
    /\ Len(BuiltTasks) = 3
    /\ InFlightIds # {} /\ CompletedIds # {} /\ LostIds # {}

\* ====================================================== order of the reports
\* C37: the offsets of the artifacts reported by one call are strictly increasing
C37_DistinctIncreasing ==
    \A i \in 1..(Len(c_found) - 1) : c_found[i].offset < c_found[i + 1].offset

\* with tail_keep >= 1, two reports of one call at the same offset carry the same
\* bytes: an artifact inside the carried tail is found again as it was
RepeatedReportsAgree ==
    c_tail_keep >= 1 =>
        \A i, j \in 1..Len(c_found) :
            c_found[i].offset = c_found[j].offset => c_found[i].data = c_found[j].data

\* an artifact has been reported twice by one call
ReportedTwice ==
    /\ c_pc = "done"
    /\ c_tail_keep >= 1
    /\ \E i, j \in 1..Len(c_found) : i # j /\ c_found[i] = c_found[j]

\* ============================================ the results directory at the end
\* every session thread has ended
AllTerminated == phase \in {"run", "summary"} /\ nworkers >= 1 /\ AllJoined

\* C38: once every session has ended, results_dir holds no temporary file
C38_TempFileHygiene == AllTerminated => DOMAIN tmp_files = {}

\* a temporary file of a session that is closed holds the bytes of a bulk frame
\* that was cut, and no session will touch it again
PartialFileLeft ==
    /\ AllTerminated
    /\ \E w \in failed :
          LET tmp_path == TmpName(w, s_task[w].task_id, s_file[w].offset)
          IN  tmp_path \in DOMAIN tmp_files /\ Len(tmp_files[tmp_path]) < 5

\* tmp_path.replace(final_path) raises OSError: the hash is in file_hashes, the
\* temporary file stays, and the exception ends the session
SessionReplaceFail(w) ==
    /\ spc[w] = "persist"
    /\ spc' = ClosedByError(spc, w)
    /\ failed' = failed \cup {w}
    /\ log' = Logged(log, w, <<"error">>)
    /\ UNCHANGED <<paramVars, phase, queueVars, nworkers, s_task, s_left, s_file, agentVars,
                   chanVars, aggVars, histVars, carveVars, alive, recvVars,
                   lock_owner, wire, result_info, pw_count>>

NextDisk ==
    \/ NextFail
    \/ \E w \in W : SessionReplaceFail(w)

\* the runs with a failing disk: the same artifact twice in the image
InitDisk ==
    /\ planted \in {P \in Plantings(RunImageSize) :
                        Cardinality(P) = 2 /\ \A p \in P : p.data = <<FF, D8, 1, FF, D9>>}
    /\ image = PlantedImage(planted, RunImageSize)
    /\ image_size = Len(image)
    /\ \E cfg \in FailConfigs :
          /\ task_chunk_size = cfg[1]
          /\ overlap_size = cfg[2]
    /\ phase = "build"
    /\ b_start = 0
    /\ b_n = 0
    /\ tasks = << >>
    /\ RunIdle
    /\ CarveIdle
    /\ RecvIdle

SpecDisk == InitDisk /\ [][NextDisk]_vars

\* the records of hash h, and the persisted files of hash h
RecordsOf(h) == {i \in RecordIndexes : recovered_files[i].hash = h}

FilesOf(h) == {name \in DOMAIN final_files : Md5(final_files[name]) = h}

\* C39: once every session has ended, the hashes of the dedup set are the hashes
\* of the records, with one record and one persisted file for each
C39_DedupAgreesWithOutput ==
    AllTerminated =>
        /\ file_hashes = {recovered_files[i].hash : i \in RecordIndexes}
        /\ \A h \in file_hashes :
              Cardinality(RecordsOf(h)) = 1 /\ Cardinality(FilesOf(h)) = 1

\* a session ended between file_hashes.add and replace, and a later report of
\* the same bytes was discarded as a duplicate: no copy is persisted
DiscardedWithNoCopy ==
    /\ AllTerminated
    /\ \E h \in file_hashes : FilesOf(h) = {} /\ RecordsOf(h) = {}
    /\ \E r1, r2 \in reported : r1.worker # r2.worker /\ r1.data = r2.data
    /\ DOMAIN final_files = {}

====
